---- MODULE Spec2Model ----
(***************************************************************************)
(* Modelium simulation core: the pure engine (sim/engine.ts) and the       *)
(* simulation worker (sim/worker.ts) that drives it over messages.         *)
(*                                                                         *)
(* Numbers are integers (exact in IEEE doubles).  An optional field or a   *)
(* nullable reference is a set: {} is undefined/null, {x} holds x.         *)
(* A JavaScript Map or Record is a sequence of keys in insertion order     *)
(* plus a function over those keys.                                        *)
(***************************************************************************)
EXTENDS Integers, Sequences, FiniteSets, TLC

\* ------------------------------------------------------------------ bounds
\* Steps a run may take before the model stops exploring.
MaxStep == 4
\* Math.random() is one of k / RandDen, k in 0 .. RandDen-1.
RandDen == 4

\* ------------------------------------------------------- optional values
Null == {}
Some(x) == {x}
The(s) == CHOOSE x \in s : TRUE
\* a ?? b
OrElse(s, d) == IF s = Null THEN d ELSE The(s)

\* Number.POSITIVE_INFINITY as a step number no run reaches.
Infinity == 1000000

\* ------------------------------------------------------------ the engine
Range(s) == {s[i] : i \in 1 .. Len(s)}

\* The draw with min left out of the width of the range.
randomInt_ForgotMin(min, max, k) == ((k * (max + 1)) \div RandDen) + min

\* Math.floor(Math.random() * (max - min + 1)) + min, Math.random() = k / RandDen
randomInt(min, max, k) == ((k * (max - min + 1)) \div RandDen) + min

\* The schedule with a fixed event reading intervalMin in place of interval.
computeNextTrigger_WrongField(node, currentStep, k) ==
  IF node.nodeType # "event" THEN Infinity
  ELSE IF node.eventType = "random"
       THEN LET min == OrElse(node.intervalMin, 1)
                max == OrElse(node.intervalMax, min)
            IN  currentStep + randomInt(min, max, k)
  ELSE IF node.eventType = "fixed"
       THEN currentStep + OrElse(node.intervalMin, 1)
  ELSE Infinity

computeNextTrigger(node, currentStep, k) ==
  IF node.nodeType # "event" THEN Infinity
  ELSE IF node.eventType = "random"
       THEN LET min == OrElse(node.intervalMin, 1)
                max == OrElse(node.intervalMax, min)
            IN  currentStep + randomInt(min, max, k)
  ELSE IF node.eventType = "fixed"
       THEN currentStep + OrElse(node.interval, 1)
  ELSE Infinity

\* Array.prototype.filter, keeping order.
RECURSIVE SelectNodes(_, _)
SelectNodes(nodes, isEvent) ==
  IF nodes = <<>> THEN <<>>
  ELSE LET n == Head(nodes)
           rest == SelectNodes(Tail(nodes), isEvent)
       IN  IF (n.nodeType = "event") = isEvent THEN <<n>> \o rest ELSE rest

\* The incoming records pushed on node id's list, in edge order.
RECURSIVE IncomingOf(_, _)
IncomingOf(edges, id) ==
  IF edges = <<>> THEN <<>>
  ELSE LET e == Head(edges)
           rest == IncomingOf(Tail(edges), id)
       IN  IF e.to = id
           THEN <<[sourceId |-> e.from, weight |-> e.weight,
                   polarity |-> IF e.polarity = "+" THEN 1 ELSE -1]>> \o rest
           ELSE rest

\* The target ids pushed on node id's outgoing list, in edge order.
RECURSIVE OutgoingOf(_, _)
OutgoingOf(edges, id) ==
  IF edges = <<>> THEN <<>>
  ELSE LET e == Head(edges)
           rest == OutgoingOf(Tail(edges), id)
       IN  IF e.from = id THEN <<e.to>> \o rest ELSE rest

NodeIds(nodes) == {nodes[i].id : i \in 1 .. Len(nodes)}

compileGraph(m) ==
  [ nodes         |-> m.nodes,
    regularNodes  |-> SelectNodes(m.nodes, FALSE),
    eventNodes    |-> SelectNodes(m.nodes, TRUE),
    incomingEdges |-> [id \in NodeIds(m.nodes) |-> IncomingOf(m.edges, id)],
    outgoingEdges |-> [id \in NodeIds(m.nodes) |-> OutgoingOf(m.edges, id)] ]

\* Map.prototype.has on a map kept as a node sequence.
Has(nodes, id) == \E i \in 1 .. Len(nodes) : nodes[i].id = id

\* rec[key] ?? d for a Record kept as a function.
Lookup(rec, key, d) == IF key \in DOMAIN rec THEN rec[key] ELSE d

\* k gives, per event node id, the Math.random() draw of its schedule.
createInitialState(m, k) ==
  [ step             |-> 0,
    values           |-> [id \in NodeIds(m.nodes) |->
                            (CHOOSE n \in Range(m.nodes) : n.id = id).value],
    breached         |-> Null,
    eventNextTrigger |-> [id \in NodeIds(SelectNodes(m.nodes, TRUE)) |->
                            computeNextTrigger(
                              CHOOSE n \in Range(m.nodes) : n.id = id, 0, k[id])],
    triggeredEvents  |-> <<>> ]

\* eventDeltas[targetId] = (eventDeltas[targetId] ?? 0) + eventValue
AddDelta(deltas, id, v) ==
  [x \in DOMAIN deltas \cup {id} |->
     IF x = id THEN Lookup(deltas, id, 0) + v ELSE deltas[x]]

\* for (const targetId of outgoing) if (regularNodes.has(targetId)) ...
RECURSIVE PulseTargets(_, _, _, _)
\* The delivery that counts a target once however many edges lead to it.
PulseTargets_Once(deltas, targets, graph, v) ==
  IF targets = <<>> THEN deltas
  ELSE PulseTargets(
         IF /\ Has(graph.regularNodes, Head(targets))
            /\ Head(targets) \notin Range(Tail(targets))
         THEN AddDelta(deltas, Head(targets), v) ELSE deltas,
         Tail(targets), graph, v)

PulseTargets(deltas, targets, graph, v) ==
  IF targets = <<>> THEN deltas
  ELSE PulseTargets(
         IF Has(graph.regularNodes, Head(targets))
         THEN AddDelta(deltas, Head(targets), v) ELSE deltas,
         Tail(targets), graph, v)

\* for (const regularId of graph.regularNodes.keys()) ...
RECURSIVE PulseAll(_, _, _)
PulseAll(deltas, regs, v) ==
  IF regs = <<>> THEN deltas
  ELSE PulseAll(AddDelta(deltas, Head(regs).id, v), Tail(regs), v)

RECURSIVE EventLoop(_, _, _, _, _)
\* The event loop rescheduling a fired event from the step it started from.
EventLoop_OldBaseline(i, acc, state, graph, k) ==
  IF i > Len(graph.eventNodes) THEN acc
  ELSE
    LET eventNode   == graph.eventNodes[i]
        eventId     == eventNode.id
        newStep     == state.step + 1
        triggerStep == Lookup(state.eventNextTrigger, eventId, Infinity)
    IN  IF newStep >= triggerStep
        THEN
          LET eventValue == Lookup(state.values, eventId, 0)
              outgoing   == Lookup(graph.outgoingEdges, eventId, <<>>)
              deltas     == IF Len(outgoing) > 0
                            THEN PulseTargets(acc.eventDeltas, outgoing, graph, eventValue)
                            ELSE PulseAll(acc.eventDeltas, graph.regularNodes, eventValue)
          IN  EventLoop(i + 1,
                [ triggeredEvents |-> Append(acc.triggeredEvents, eventId),
                  eventDeltas     |-> deltas,
                  newEventNextTrigger |->
                    [x \in DOMAIN acc.newEventNextTrigger \cup {eventId} |->
                       IF x = eventId
                       THEN computeNextTrigger(eventNode, state.step, k[eventId])
                       ELSE acc.newEventNextTrigger[x]] ],
                state, graph, k)
        ELSE EventLoop(i + 1, acc, state, graph, k)

\* The event loop of computeStep from event node i on; acc carries
\* triggeredEvents, eventDeltas and newEventNextTrigger.
EventLoop(i, acc, state, graph, k) ==
  IF i > Len(graph.eventNodes) THEN acc
  ELSE
    LET eventNode   == graph.eventNodes[i]
        eventId     == eventNode.id
        newStep     == state.step + 1
        triggerStep == Lookup(state.eventNextTrigger, eventId, Infinity)
    IN  IF newStep >= triggerStep
        THEN
          LET eventValue == Lookup(state.values, eventId, 0)
              outgoing   == Lookup(graph.outgoingEdges, eventId, <<>>)
              deltas     == IF Len(outgoing) > 0
                            THEN PulseTargets(acc.eventDeltas, outgoing, graph, eventValue)
                            ELSE PulseAll(acc.eventDeltas, graph.regularNodes, eventValue)
          IN  EventLoop(i + 1,
                [ triggeredEvents |-> Append(acc.triggeredEvents, eventId),
                  eventDeltas     |-> deltas,
                  newEventNextTrigger |->
                    [x \in DOMAIN acc.newEventNextTrigger \cup {eventId} |->
                       IF x = eventId
                       THEN computeNextTrigger(eventNode, newStep, k[eventId])
                       ELSE acc.newEventNextTrigger[x]] ],
                state, graph, k)
        ELSE EventLoop(i + 1, acc, state, graph, k)

\* delta += edge.weight * sourceValue * edge.polarity, skipping event sources
RECURSIVE EdgeSum(_, _, _)
\* The edge sum that takes edges from event nodes like any other edge.
EdgeSum_EventSources(incoming, state, graph) ==
  IF incoming = <<>> THEN 0
  ELSE LET edge == Head(incoming)
           rest == EdgeSum(Tail(incoming), state, graph)
       IN  edge.weight * Lookup(state.values, edge.sourceId, 0) * edge.polarity + rest

EdgeSum(incoming, state, graph) ==
  IF incoming = <<>> THEN 0
  ELSE LET edge == Head(incoming)
           rest == EdgeSum(Tail(incoming), state, graph)
       IN  IF Has(graph.eventNodes, edge.sourceId) THEN rest
           ELSE edge.weight * Lookup(state.values, edge.sourceId, 0) * edge.polarity + rest

\* The raw value with dt left out of the edge sum.
RawNext_NoDt(currentValue, dt, delta, eventDelta) == currentValue + delta + eventDelta

\* The raw value with dt scaling the node's own value as well.
RawNext_ScaledValue(currentValue, dt, delta, eventDelta) ==
  dt * (currentValue + delta) + eventDelta

\* let newValue = currentValue + dt * delta + eventDelta
RawNext(currentValue, dt, delta, eventDelta) == currentValue + dt * delta + eventDelta

\* The constraint checks recording the clamped value in the breach.
CheckConstraints_RecordsClamped(node, raw, breach) ==
  LET overMax  == node.max # Null /\ raw > The(node.max)
      v1       == IF overMax THEN The(node.max) ELSE raw
      breach1  == IF overMax /\ breach = Null
                  THEN Some([nodeId |-> node.id, constraint |-> "max",
                             value |-> v1, limit |-> The(node.max)])
                  ELSE breach
      underMin == node.min # Null /\ v1 < The(node.min)
      v2       == IF underMin THEN The(node.min) ELSE v1
      breach2  == IF underMin /\ breach1 = Null
                  THEN Some([nodeId |-> node.id, constraint |-> "min",
                             value |-> v2, limit |-> The(node.min)])
                  ELSE breach1
  IN  [value |-> v2, breach |-> breach2]

\* The constraint checks that treat a value on a bound as outside it.
CheckConstraints_ExclusiveBounds(node, raw, breach) ==
  LET overMax  == node.max # Null /\ raw >= The(node.max)
      breach1  == IF overMax /\ breach = Null
                  THEN Some([nodeId |-> node.id, constraint |-> "max",
                             value |-> raw, limit |-> The(node.max)])
                  ELSE breach
      v1       == IF overMax THEN The(node.max) ELSE raw
      underMin == node.min # Null /\ v1 <= The(node.min)
      breach2  == IF underMin /\ breach1 = Null
                  THEN Some([nodeId |-> node.id, constraint |-> "min",
                             value |-> v1, limit |-> The(node.min)])
                  ELSE breach1
      v2       == IF underMin THEN The(node.min) ELSE v1
  IN  [value |-> v2, breach |-> breach2]

\* The constraint checks recording every breach over the one before it.
CheckConstraints_LastBreach(node, raw, breach) ==
  LET overMax  == node.max # Null /\ raw > The(node.max)
      breach1  == IF overMax
                  THEN Some([nodeId |-> node.id, constraint |-> "max",
                             value |-> raw, limit |-> The(node.max)])
                  ELSE breach
      v1       == IF overMax THEN The(node.max) ELSE raw
      underMin == node.min # Null /\ v1 < The(node.min)
      breach2  == IF underMin
                  THEN Some([nodeId |-> node.id, constraint |-> "min",
                             value |-> v1, limit |-> The(node.min)])
                  ELSE breach1
      v2       == IF underMin THEN The(node.min) ELSE v1
  IN  [value |-> v2, breach |-> breach2]

\* The constraint checks with the min breach recorded but the value not clamped.
CheckConstraints_NoMinClamp(node, raw, breach) ==
  LET overMax  == node.max # Null /\ raw > The(node.max)
      breach1  == IF overMax /\ breach = Null
                  THEN Some([nodeId |-> node.id, constraint |-> "max",
                             value |-> raw, limit |-> The(node.max)])
                  ELSE breach
      v1       == IF overMax THEN The(node.max) ELSE raw
      underMin == node.min # Null /\ v1 < The(node.min)
      breach2  == IF underMin /\ breach1 = Null
                  THEN Some([nodeId |-> node.id, constraint |-> "min",
                             value |-> v1, limit |-> The(node.min)])
                  ELSE breach1
  IN  [value |-> v1, breach |-> breach2]

\* The max check then the min check on one node; gives the clamped value
\* and the breach record after this node.
CheckConstraints(node, raw, breach) ==
  LET overMax  == node.max # Null /\ raw > The(node.max)
      breach1  == IF overMax /\ breach = Null
                  THEN Some([nodeId |-> node.id, constraint |-> "max",
                             value |-> raw, limit |-> The(node.max)])
                  ELSE breach
      v1       == IF overMax THEN The(node.max) ELSE raw
      underMin == node.min # Null /\ v1 < The(node.min)
      breach2  == IF underMin /\ breach1 = Null
                  THEN Some([nodeId |-> node.id, constraint |-> "min",
                             value |-> v1, limit |-> The(node.min)])
                  ELSE breach1
      v2       == IF underMin THEN The(node.min) ELSE v1
  IN  [value |-> v2, breach |-> breach2]

\* The node loop of computeStep from node i on; acc carries newValues and breach.
RECURSIVE NodeLoop(_, _, _, _, _, _)
\* The node loop that reads the values already written in the current step.
NodeLoop_InPlace(i, acc, state, graph, dt, eventDeltas) ==
  IF i > Len(graph.nodes) THEN acc
  ELSE
    LET node         == graph.nodes[i]
        nodeId       == node.id
        currentValue == Lookup(state.values, nodeId, 0)
    IN  IF node.nodeType = "event"
        THEN NodeLoop(i + 1,
               [acc EXCEPT !.newValues =
                  [x \in DOMAIN acc.newValues \cup {nodeId} |->
                     IF x = nodeId THEN currentValue ELSE acc.newValues[x]]],
               state, graph, dt, eventDeltas)
        ELSE
          LET incoming   == Lookup(graph.incomingEdges, nodeId, <<>>)
              delta      == EdgeSum(incoming, state, graph)
              eventDelta == Lookup(eventDeltas, nodeId, 0)
              raw        == RawNext(currentValue, dt, delta, eventDelta)
              c          == CheckConstraints(node, raw, acc.breach)
          IN  NodeLoop(i + 1,
                [ newValues |->
                    [x \in DOMAIN acc.newValues \cup {nodeId} |->
                       IF x = nodeId THEN c.value ELSE acc.newValues[x]],
                  breach |-> c.breach ],
                [state EXCEPT !.values[nodeId] = c.value], graph, dt, eventDeltas)

\* The node loop that puts event nodes through the constraint checks too.
NodeLoop_ClampsEvents(i, acc, state, graph, dt, eventDeltas) ==
  IF i > Len(graph.nodes) THEN acc
  ELSE
    LET node         == graph.nodes[i]
        nodeId       == node.id
        currentValue == Lookup(state.values, nodeId, 0)
        incoming     == Lookup(graph.incomingEdges, nodeId, <<>>)
        delta        == IF node.nodeType = "event" THEN 0
                        ELSE EdgeSum(incoming, state, graph)
        eventDelta   == Lookup(eventDeltas, nodeId, 0)
        raw          == RawNext(currentValue, dt, delta, eventDelta)
        c            == CheckConstraints(node, raw, acc.breach)
    IN  NodeLoop(i + 1,
          [ newValues |->
              [x \in DOMAIN acc.newValues \cup {nodeId} |->
                 IF x = nodeId THEN c.value ELSE acc.newValues[x]],
            breach |-> c.breach ],
          state, graph, dt, eventDeltas)

NodeLoop(i, acc, state, graph, dt, eventDeltas) ==
  IF i > Len(graph.nodes) THEN acc
  ELSE
    LET node         == graph.nodes[i]
        nodeId       == node.id
        currentValue == Lookup(state.values, nodeId, 0)
    IN  IF node.nodeType = "event"
        THEN NodeLoop(i + 1,
               [acc EXCEPT !.newValues =
                  [x \in DOMAIN acc.newValues \cup {nodeId} |->
                     IF x = nodeId THEN currentValue ELSE acc.newValues[x]]],
               state, graph, dt, eventDeltas)
        ELSE
          LET incoming   == Lookup(graph.incomingEdges, nodeId, <<>>)
              delta      == EdgeSum(incoming, state, graph)
              eventDelta == Lookup(eventDeltas, nodeId, 0)
              raw        == RawNext(currentValue, dt, delta, eventDelta)
              c          == CheckConstraints(node, raw, acc.breach)
          IN  NodeLoop(i + 1,
                [ newValues |->
                    [x \in DOMAIN acc.newValues \cup {nodeId} |->
                       IF x = nodeId THEN c.value ELSE acc.newValues[x]],
                  breach |-> c.breach ],
                state, graph, dt, eventDeltas)

\* computeStep that starts from the breach latched in its input state.
computeStep_LatchedBreach(state, graph, dt, k) ==
  LET ev == EventLoop(1,
              [ triggeredEvents     |-> <<>>,
                eventDeltas         |-> <<>>,
                newEventNextTrigger |-> state.eventNextTrigger ],
              state, graph, k)
      nd == NodeLoop(1, [newValues |-> <<>>, breach |-> state.breached],
                     state, graph, dt, ev.eventDeltas)
  IN  [ step             |-> state.step + 1,
        values           |-> nd.newValues,
        breached         |-> nd.breach,
        eventNextTrigger |-> ev.newEventNextTrigger,
        triggeredEvents  |-> ev.triggeredEvents ]

computeStep(state, graph, dt, k) ==
  LET ev == EventLoop(1,
              [ triggeredEvents     |-> <<>>,
                eventDeltas         |-> <<>>,
                newEventNextTrigger |-> state.eventNextTrigger ],
              state, graph, k)
      nd == NodeLoop(1, [newValues |-> <<>>, breach |-> Null],
                     state, graph, dt, ev.eventDeltas)
  IN  [ step             |-> state.step + 1,
        values           |-> nd.newValues,
        breached         |-> nd.breach,
        eventNextTrigger |-> ev.newEventNextTrigger,
        triggeredEvents  |-> ev.triggeredEvents ]

\* ------------------------------------------------------------ the worker
VARIABLES
  model,          \* ModeliumModel | null
  config,         \* SimConfig | null
  compiledGraph,  \* CompiledGraph | null
  state,          \* SimState | null
  initialState,   \* SimState | null
  loopId,         \* id returned by setInterval | null
  history,        \* SimStateSnapshot[]
  intervalMs,     \* tick interval
  breakpoints,    \* Breakpoint[]
  timers,         \* the interval timers the event loop holds, each with its id and
                  \* its interval (setInterval / clearInterval)
  out,            \* the results posted by the handler that ran last, in order
  msg,            \* the message the last handler processed, or the tick that ran
                  \* last with the step it computed
  afterPause,     \* history variable: "no", or what followed the last pause not yet resumed
  afterHit,       \* history variable: "no", or what followed the last breakpoint hit
  manager,        \* the breakpoint manager: its Map and what its callbacks last received
  lastAdd,        \* history variable: per node id, the last add not removed since,
                  \* and whether that add found the id already registered
  mem,            \* the worker's objects by address and the references it holds
  check,          \* the last call of checkBreakpoints on its own: its arguments
                  \* and what it returned
  ctl             \* the controller: its status and settings, the messages posted
                  \* to the worker and the results posted to it that are not yet
                  \* delivered, and the timeouts of start() not yet expired

vars == <<model, config, compiledGraph, state, initialState, loopId, history,
          intervalMs, breakpoints, timers, out, msg, afterPause, afterHit,
          manager, lastAdd, mem, check, ctl>>

\* The worker's module-level state as one record, as a handler finds it.
Cur ==
  [ model |-> model, config |-> config, compiledGraph |-> compiledGraph,
    state |-> state, initialState |-> initialState, loopId |-> loopId,
    history |-> history, intervalMs |-> intervalMs, breakpoints |-> breakpoints,
    timers |-> timers, out |-> <<>> ]

\* The module-level declarations of the worker.
Fresh ==
  [ model |-> Null, config |-> Null, compiledGraph |-> Null,
    state |-> Null, initialState |-> Null, loopId |-> Null,
    history |-> <<>>, intervalMs |-> 16, breakpoints |-> <<>>,
    timers |-> {}, out |-> <<>> ]

\* The handler leaves the worker as w.
Handled(w) ==
  /\ model' = w.model
  /\ config' = w.config
  /\ compiledGraph' = w.compiledGraph
  /\ state' = w.state
  /\ initialState' = w.initialState
  /\ loopId' = w.loopId
  /\ history' = w.history
  /\ intervalMs' = w.intervalMs
  /\ breakpoints' = w.breakpoints
  /\ timers' = w.timers
  /\ out' = w.out
  /\ UNCHANGED <<manager, lastAdd, mem, check>>

\* The handler leaves the worker as w; nothing is modelled of the controller.
Becomes(w) == Handled(w) /\ UNCHANGED ctl

postResult(w, result) == [w EXCEPT !.out = Append(@, result)]

stopLoop(w) ==
  IF w.loopId # Null
  THEN [w EXCEPT !.timers = {t \in @ : t.id \notin w.loopId}, !.loopId = Null]
  ELSE w

\* setInterval returns an id no active timer has.
NewTimerId(active) ==
  CHOOSE i \in 1 .. Cardinality(active) + 1 : \A t \in active : t.id # i

\* startLoop that sets the new timer without clearing the one that runs.
startLoop_NoCancel(w) ==
  LET id == NewTimerId(w.timers)
  IN  [w EXCEPT !.timers = @ \cup {[id |-> id, ms |-> w.intervalMs]},
                !.loopId = Some(id)]

startLoop(w) ==
  LET s  == stopLoop(w)
      id == NewTimerId(s.timers)
  IN  [s EXCEPT !.timers = @ \cup {[id |-> id, ms |-> s.intervalMs]},
                !.loopId = Some(id)]

checkBreakpointCondition(bp, actualValue) ==
  CASE bp.condition = "eq"  -> actualValue = bp.value
    [] bp.condition = "gt"  -> actualValue > bp.value
    [] bp.condition = "lt"  -> actualValue < bp.value
    [] bp.condition = "gte" -> actualValue >= bp.value
    [] bp.condition = "lte" -> actualValue <= bp.value
    [] OTHER -> FALSE

\* checkBreakpoints that looks at the first breakpoint of the list only.
checkBreakpoints_FirstOnly(bps, values) ==
  IF bps = <<>> THEN Null
  ELSE LET bp == Head(bps)
       IN  IF bp.nodeId \in DOMAIN values /\ checkBreakpointCondition(bp, values[bp.nodeId])
           THEN Some([breakpoint |-> bp, actualValue |-> values[bp.nodeId]])
           ELSE Null

\* The first hit in list order, or null.
RECURSIVE checkBreakpoints(_, _)
\* checkBreakpoints that goes through the whole list and keeps the last hit.
checkBreakpoints_LastHit(bps, values) ==
  IF bps = <<>> THEN Null
  ELSE LET bp   == Head(bps)
           rest == checkBreakpoints(Tail(bps), values)
       IN  IF rest # Null THEN rest
           ELSE IF bp.nodeId \in DOMAIN values /\ checkBreakpointCondition(bp, values[bp.nodeId])
           THEN Some([breakpoint |-> bp, actualValue |-> values[bp.nodeId]])
           ELSE Null

checkBreakpoints(bps, values) ==
  IF bps = <<>> THEN Null
  ELSE LET bp == Head(bps)
       IN  IF bp.nodeId \in DOMAIN values /\ checkBreakpointCondition(bp, values[bp.nodeId])
           THEN Some([breakpoint |-> bp, actualValue |-> values[bp.nodeId]])
           ELSE checkBreakpoints(Tail(bps), values)

Snapshot(st) == [step |-> st.step, values |-> st.values]

\* runStep that never looks at the step budget.
runStep_NoBudget(w, k) ==
  IF w.state = Null \/ w.compiledGraph = Null \/ w.config = Null
  THEN [w |-> w, ret |-> FALSE]
  ELSE
    LET newState == computeStep(The(w.state), The(w.compiledGraph), The(w.config).dt, k)
        snapshot == Snapshot(newState)
        w1 == postResult([w EXCEPT !.state = Some(newState),
                                   !.history = Append(@, snapshot)],
                         [type |-> "state", snapshot |-> snapshot])
        hit == checkBreakpoints(w1.breakpoints, newState.values)
    IN  IF newState.breached # Null
        THEN [w |-> postResult(stopLoop(w1),
                      [type |-> "paused", breach |-> The(newState.breached)]),
              ret |-> FALSE]
        ELSE IF hit # Null
        THEN [w |-> postResult(stopLoop(w1),
                      [type |-> "breakpointHit", hit |-> The(hit)]),
              ret |-> FALSE]
        ELSE [w |-> w1, ret |-> TRUE]

\* runStep that leaves the timer running when the budget is reached.
runStep_DoneKeepsTimer(w, k) ==
  IF w.state = Null \/ w.compiledGraph = Null \/ w.config = Null
  THEN [w |-> w, ret |-> FALSE]
  ELSE
    LET newState == computeStep(The(w.state), The(w.compiledGraph), The(w.config).dt, k)
        snapshot == Snapshot(newState)
        w1 == postResult([w EXCEPT !.state = Some(newState),
                                   !.history = Append(@, snapshot)],
                         [type |-> "state", snapshot |-> snapshot])
        hit == checkBreakpoints(w1.breakpoints, newState.values)
    IN  IF newState.breached # Null
        THEN [w |-> postResult(stopLoop(w1),
                      [type |-> "paused", breach |-> The(newState.breached)]),
              ret |-> FALSE]
        ELSE IF hit # Null
        THEN [w |-> postResult(stopLoop(w1),
                      [type |-> "breakpointHit", hit |-> The(hit)]),
              ret |-> FALSE]
        ELSE IF newState.step >= The(w1.config).steps
        THEN [w |-> postResult(w1, [type |-> "done", history |-> w1.history]),
              ret |-> FALSE]
        ELSE [w |-> w1, ret |-> TRUE]

\* runStep that posts the state result after the result that halts the step.
runStep_StateLast(w, k) ==
  IF w.state = Null \/ w.compiledGraph = Null \/ w.config = Null
  THEN [w |-> w, ret |-> FALSE]
  ELSE
    LET newState == computeStep(The(w.state), The(w.compiledGraph), The(w.config).dt, k)
        snapshot == Snapshot(newState)
        w1 == [w EXCEPT !.state = Some(newState), !.history = Append(@, snapshot)]
        st == [type |-> "state", snapshot |-> snapshot]
        hit == checkBreakpoints(w1.breakpoints, newState.values)
    IN  IF newState.breached # Null
        THEN [w |-> postResult(postResult(stopLoop(w1),
                      [type |-> "paused", breach |-> The(newState.breached)]), st),
              ret |-> FALSE]
        ELSE IF hit # Null
        THEN [w |-> postResult(postResult(stopLoop(w1),
                      [type |-> "breakpointHit", hit |-> The(hit)]), st),
              ret |-> FALSE]
        ELSE IF newState.step >= The(w1.config).steps
        THEN [w |-> postResult(postResult(stopLoop(w1),
                      [type |-> "done", history |-> w1.history]), st),
              ret |-> FALSE]
        ELSE [w |-> postResult(w1, st), ret |-> TRUE]

\* runStep that looks at the breakpoints before the breach.
runStep_BreakpointFirst(w, k) ==
  IF w.state = Null \/ w.compiledGraph = Null \/ w.config = Null
  THEN [w |-> w, ret |-> FALSE]
  ELSE
    LET newState == computeStep(The(w.state), The(w.compiledGraph), The(w.config).dt, k)
        snapshot == Snapshot(newState)
        w1 == postResult([w EXCEPT !.state = Some(newState),
                                   !.history = Append(@, snapshot)],
                         [type |-> "state", snapshot |-> snapshot])
        hit == checkBreakpoints(w1.breakpoints, newState.values)
    IN  IF hit # Null
        THEN [w |-> postResult(stopLoop(w1),
                      [type |-> "breakpointHit", hit |-> The(hit)]),
              ret |-> FALSE]
        ELSE IF newState.breached # Null
        THEN [w |-> postResult(stopLoop(w1),
                      [type |-> "paused", breach |-> The(newState.breached)]),
              ret |-> FALSE]
        ELSE IF newState.step >= The(w1.config).steps
        THEN [w |-> postResult(stopLoop(w1),
                      [type |-> "done", history |-> w1.history]),
              ret |-> FALSE]
        ELSE [w |-> w1, ret |-> TRUE]

\* runStep that forgets to record the snapshot in the history.
runStep_NoPush(w, k) ==
  IF w.state = Null \/ w.compiledGraph = Null \/ w.config = Null
  THEN [w |-> w, ret |-> FALSE]
  ELSE
    LET newState == computeStep(The(w.state), The(w.compiledGraph), The(w.config).dt, k)
        snapshot == Snapshot(newState)
        w1 == postResult([w EXCEPT !.state = Some(newState)],
                         [type |-> "state", snapshot |-> snapshot])
        hit == checkBreakpoints(w1.breakpoints, newState.values)
    IN  IF newState.breached # Null
        THEN [w |-> postResult(stopLoop(w1),
                      [type |-> "paused", breach |-> The(newState.breached)]),
              ret |-> FALSE]
        ELSE IF hit # Null
        THEN [w |-> postResult(stopLoop(w1),
                      [type |-> "breakpointHit", hit |-> The(hit)]),
              ret |-> FALSE]
        ELSE IF newState.step >= The(w1.config).steps
        THEN [w |-> postResult(stopLoop(w1),
                      [type |-> "done", history |-> w1.history]),
              ret |-> FALSE]
        ELSE [w |-> w1, ret |-> TRUE]

\* runStep: the worker after the call and the value returned.
runStep(w, k) ==
  IF w.state = Null \/ w.compiledGraph = Null \/ w.config = Null
  THEN [w |-> w, ret |-> FALSE]
  ELSE
    LET newState == computeStep(The(w.state), The(w.compiledGraph), The(w.config).dt, k)
        snapshot == Snapshot(newState)
        w1 == postResult([w EXCEPT !.state = Some(newState),
                                   !.history = Append(@, snapshot)],
                         [type |-> "state", snapshot |-> snapshot])
        hit == checkBreakpoints(w1.breakpoints, newState.values)
    IN  IF newState.breached # Null
        THEN [w |-> postResult(stopLoop(w1),
                      [type |-> "paused", breach |-> The(newState.breached)]),
              ret |-> FALSE]
        ELSE IF hit # Null
        THEN [w |-> postResult(stopLoop(w1),
                      [type |-> "breakpointHit", hit |-> The(hit)]),
              ret |-> FALSE]
        ELSE IF newState.step >= The(w1.config).steps
        THEN [w |-> postResult(stopLoop(w1),
                      [type |-> "done", history |-> w1.history]),
              ret |-> FALSE]
        ELSE [w |-> w1, ret |-> TRUE]

NotInitialized == [type |-> "error", message |-> "Not initialized"]

\* init that leaves a running timer running.
handleInit_KeepsTimer(w, m, c, k) ==
  LET init == createInitialState(m, k)
  IN  postResult(
        [w EXCEPT !.model = Some(m), !.config = Some(c),
                  !.intervalMs = OrElse(c.intervalMs, 16),
                  !.compiledGraph = Some(compileGraph(m)),
                  !.initialState = Some(init),
                  !.state = Some(init),
                  !.history = <<>>],
        [type |-> "ready"])

\* init that also empties the breakpoint list.
handleInit_ClearsBreakpoints(w, m, c, k) ==
  LET s    == stopLoop(w)
      init == createInitialState(m, k)
  IN  postResult(
        [s EXCEPT !.model = Some(m), !.config = Some(c),
                  !.intervalMs = OrElse(c.intervalMs, 16),
                  !.compiledGraph = Some(compileGraph(m)),
                  !.initialState = Some(init),
                  !.state = Some(init),
                  !.history = <<>>,
                  !.breakpoints = <<>>],
        [type |-> "ready"])

\* case 'init'
handleInit(w, m, c, k) ==
  LET s    == stopLoop(w)
      init == createInitialState(m, k)
  IN  postResult(
        [s EXCEPT !.model = Some(m), !.config = Some(c),
                  !.intervalMs = OrElse(c.intervalMs, 16),
                  !.compiledGraph = Some(compileGraph(m)),
                  !.initialState = Some(init),
                  !.state = Some(init),
                  !.history = <<>>],
        [type |-> "ready"])

\* run that starts over from the initial state.
handleRun_FromStart(w) ==
  IF w.state = Null THEN postResult(w, NotInitialized)
  ELSE startLoop([w EXCEPT !.history = <<>>, !.state = w.initialState])

\* run that keeps the snapshots of earlier steps.
handleRun_KeepsHistory(w) ==
  IF w.state = Null THEN postResult(w, NotInitialized)
  ELSE startLoop(w)

\* run without the check for a session.
handleRun_Unguarded(w) == startLoop([w EXCEPT !.history = <<>>])

\* case 'run'
handleRun(w) ==
  IF w.state = Null THEN postResult(w, NotInitialized)
  ELSE startLoop([w EXCEPT !.history = <<>>])

\* case 'pause'
handlePause(w) == stopLoop(w)

\* resume that leaves the latched breach in the state.
handleResume_KeepsBreach(w) ==
  IF w.state = Null THEN postResult(w, NotInitialized)
  ELSE startLoop(postResult(w, [type |-> "resumed"]))

\* case 'resume'
handleResume(w) ==
  IF w.state = Null THEN postResult(w, NotInitialized)
  ELSE startLoop(postResult(
         [w EXCEPT !.state = Some([The(w.state) EXCEPT !.breached = Null])],
         [type |-> "resumed"]))

\* reset that restores step and values but keeps the current event schedule.
handleReset_KeepSchedule(w) ==
  LET s == stopLoop(w)
  IN  IF s.initialState = Null THEN postResult(s, NotInitialized)
      ELSE postResult(
             [s EXCEPT !.state = Some([The(s.initialState) EXCEPT
                                         !.eventNextTrigger = The(s.state).eventNextTrigger]),
                       !.history = <<>>],
             [type |-> "state", snapshot |-> Snapshot(The(s.initialState))])

\* reset that reports nothing when no session exists.
handleReset_Silent(w) ==
  LET s == stopLoop(w)
  IN  IF s.initialState = Null THEN s
      ELSE postResult(
             [s EXCEPT !.state = s.initialState, !.history = <<>>],
             [type |-> "state", snapshot |-> Snapshot(The(s.initialState))])

\* case 'reset'
handleReset(w) ==
  LET s == stopLoop(w)
  IN  IF s.initialState = Null THEN postResult(s, NotInitialized)
      ELSE postResult(
             [s EXCEPT !.state = s.initialState, !.history = <<>>],
             [type |-> "state", snapshot |-> Snapshot(The(s.initialState))])

\* stop that posts done and leaves the timer running.
handleStop_KeepsTimer(w) == postResult(w, [type |-> "done", history |-> w.history])

\* case 'stop'
handleStop(w) ==
  LET s == stopLoop(w)
  IN  postResult(s, [type |-> "done", history |-> s.history])

\* step that posts stepped whatever runStep returned.
handleStep_AlwaysStepped(w, k) ==
  IF w.state = Null THEN postResult(w, NotInitialized)
  ELSE
    LET r == runStep([w EXCEPT !.state = Some([The(w.state) EXCEPT !.breached = Null])], k)
    IN  postResult(r.w, [type |-> "stepped", snapshot |-> Snapshot(The(r.w.state))])

\* case 'step'
handleStep(w, k) ==
  IF w.state = Null THEN postResult(w, NotInitialized)
  ELSE
    LET r == runStep([w EXCEPT !.state = Some([The(w.state) EXCEPT !.breached = Null])], k)
    IN  IF r.ret
        THEN postResult(r.w, [type |-> "stepped", snapshot |-> Snapshot(The(r.w.state))])
        ELSE r.w

\* setSpeed that stores the interval and leaves the running timer as it is.
handleSetSpeed_NoRestart(w, ms) == [w EXCEPT !.intervalMs = ms]

\* setSpeed that restarts the timer whether or not one is active.
handleSetSpeed_AlwaysRestart(w, ms) == startLoop([w EXCEPT !.intervalMs = ms])

\* case 'setSpeed'
handleSetSpeed(w, ms) ==
  LET s == [w EXCEPT !.intervalMs = ms]
  IN  IF s.loopId # Null THEN startLoop(s) ELSE s

\* case 'updateBreakpoints'
handleUpdateBreakpoints(w, bps) == [w EXCEPT !.breakpoints = bps]

\* ------------------------------------------- the worker's objects in memory
\* Objects live at addresses 1 .. Len(objects); a reference is an address.
\* A SimState object refers to its values map, its eventNextTrigger map and
\* its triggeredEvents array; a snapshot object refers to its values map.
MapObject(entries) == [kind |-> "map", entries |-> entries]
ArrayObject(items) == [kind |-> "array", items |-> items]
StateObject(step, values, breached, eventNextTrigger, triggeredEvents) ==
  [ kind |-> "state", step |-> step, values |-> values, breached |-> breached,
    eventNextTrigger |-> eventNextTrigger, triggeredEvents |-> triggeredEvents ]
SnapshotObject(step, values) == [kind |-> "snapshot", step |-> step, values |-> values]

\* The SimState the engine reads through reference a.
Deref(objects, a) ==
  [ step             |-> objects[a].step,
    values           |-> objects[objects[a].values].entries,
    breached         |-> objects[a].breached,
    eventNextTrigger |-> objects[objects[a].eventNextTrigger].entries,
    triggeredEvents  |-> objects[objects[a].triggeredEvents].items ]

\* The module-level declarations of the worker, no object allocated.
NewMemory ==
  [ objects |-> <<>>, model |-> Null, config |-> Null, compiledGraph |-> Null,
    state |-> Null, initialState |-> Null, history |-> <<>>, op |-> "load" ]

\* createInitialState: a values map, an eventNextTrigger map, a triggeredEvents
\* array and the state object that refers to them; ret is its address.
createInitialStateAt(objects, m, k) ==
  LET init == createInitialState(m, k)
      n    == Len(objects)
  IN  [ objects |-> objects \o << MapObject(init.values),
                                  MapObject(init.eventNextTrigger),
                                  ArrayObject(init.triggeredEvents),
                                  StateObject(init.step, n + 1, init.breached, n + 2, n + 3) >>,
        ret |-> n + 4 ]

\* computeStep writing the new values into the values map of its input.
computeStepAt_InPlace(objects, a, graph, dt, k) ==
  LET new == computeStep(Deref(objects, a), graph, dt, k)
      n   == Len(objects)
  IN  [ objects |-> [objects EXCEPT ![objects[a].values] = MapObject(new.values)]
                      \o << MapObject(new.eventNextTrigger),
                            ArrayObject(new.triggeredEvents),
                            StateObject(new.step, objects[a].values, new.breached,
                                        n + 1, n + 2) >>,
        ret |-> n + 3 ]

\* computeStep: newValues, newEventNextTrigger and triggeredEvents are new
\* objects, filled from what the input refers to, and the state returned is a
\* new object that refers to them.
computeStepAt(objects, a, graph, dt, k) ==
  LET new == computeStep(Deref(objects, a), graph, dt, k)
      n   == Len(objects)
  IN  [ objects |-> objects \o << MapObject(new.values),
                                  MapObject(new.eventNextTrigger),
                                  ArrayObject(new.triggeredEvents),
                                  StateObject(new.step, n + 1, new.breached, n + 2, n + 3) >>,
        ret |-> n + 4 ]

\* state = { ...initialState, values: { ...initialState.values } }
CopyWithValues(objects, a) ==
  LET n == Len(objects)
  IN  [ objects |-> objects \o << MapObject(objects[objects[a].values].entries),
                                  [objects[a] EXCEPT !.values = n + 1] >>,
        ret |-> n + 2 ]

\* state = { ...state, breached: null }
CopyUnbreached(objects, a) ==
  [ objects |-> Append(objects, [objects[a] EXCEPT !.breached = Null]),
    ret |-> Len(objects) + 1 ]

\* case 'init'
initAt(h, m, c, k) ==
  LET i == createInitialStateAt(h.objects, m, k)
      s == CopyWithValues(i.objects, i.ret)
  IN  [h EXCEPT !.objects = s.objects, !.model = Some(m), !.config = Some(c),
                !.compiledGraph = Some(compileGraph(m)),
                !.initialState = Some(i.ret), !.state = Some(s.ret),
                !.history = <<>>]

\* runStep up to history.push(snapshot)
runStepAt(h, k) ==
  LET c == computeStepAt(h.objects, The(h.state), The(h.compiledGraph),
                         The(h.config).dt, k)
      n == Len(c.objects)
  IN  [h EXCEPT !.objects = c.objects
                              \o << MapObject(c.objects[c.objects[c.ret].values].entries),
                                    SnapshotObject(c.objects[c.ret].step, n + 1) >>,
                !.state = Some(c.ret),
                !.history = Append(@, n + 2)]

\* case 'run'
runAt(h) == [h EXCEPT !.history = <<>>]

\* case 'resume'
resumeAt(h) ==
  LET s == CopyUnbreached(h.objects, The(h.state))
  IN  [h EXCEPT !.objects = s.objects, !.state = Some(s.ret)]

\* case 'reset'
resetAt(h) ==
  LET s == CopyWithValues(h.objects, The(h.initialState))
  IN  [h EXCEPT !.objects = s.objects, !.state = Some(s.ret), !.history = <<>>]

\* case 'step'
stepAt(h, k) ==
  LET s == CopyUnbreached(h.objects, The(h.state))
  IN  runStepAt([h EXCEPT !.objects = s.objects, !.state = Some(s.ret)], k)

\* --------------------------------------------------- the breakpoint manager
\* Map.prototype.set on a map kept as its entries in insertion order: a key
\* already present keeps its place and takes the new value.
MapSet(entries, bp) ==
  IF \E i \in 1 .. Len(entries) : entries[i].nodeId = bp.nodeId
  THEN [i \in 1 .. Len(entries) |->
          IF entries[i].nodeId = bp.nodeId THEN bp ELSE entries[i]]
  ELSE Append(entries, bp)

RECURSIVE MapDelete(_, _)
MapDelete(entries, nodeId) ==
  IF entries = <<>> THEN <<>>
  ELSE IF Head(entries).nodeId = nodeId THEN MapDelete(Tail(entries), nodeId)
  ELSE <<Head(entries)>> \o MapDelete(Tail(entries), nodeId)

\* const breakpoints = new Map(); no callback has been called.
NewManager == [breakpoints |-> <<>>, notified |-> Null]

\* Array.from(breakpoints.values())
getAll(mgr) == mgr.breakpoints

\* Every callback is called with the current list.
notifyChange(mgr) == [mgr EXCEPT !.notified = Some(getAll(mgr))]

\* add that stores the breakpoint without looking for the node id.
add_Push(mgr, nodeId, condition, value) ==
  notifyChange([mgr EXCEPT !.breakpoints =
    Append(@, [nodeId |-> nodeId, condition |-> condition, value |-> value])])

add(mgr, nodeId, condition, value) ==
  notifyChange([mgr EXCEPT !.breakpoints =
    MapSet(@, [nodeId |-> nodeId, condition |-> condition, value |-> value])])

remove(mgr, nodeId) ==
  IF \E i \in 1 .. Len(mgr.breakpoints) : mgr.breakpoints[i].nodeId = nodeId
  THEN notifyChange([mgr EXCEPT !.breakpoints = MapDelete(@, nodeId)])
  ELSE [mgr EXCEPT !.notified = Null]

removeAll(mgr) ==
  IF Len(mgr.breakpoints) > 0
  THEN notifyChange([mgr EXCEPT !.breakpoints = <<>>])
  ELSE [mgr EXCEPT !.notified = Null]

\* ------------------------------------------------------- models and inputs
Regular(id, value, min, max) ==
  [ id |-> id, value |-> value, min |-> min, max |-> max, nodeType |-> "regular",
    eventType |-> "undefined", interval |-> Null, intervalMin |-> Null, intervalMax |-> Null ]

FixedEvent(id, value, min, max, interval) ==
  [ id |-> id, value |-> value, min |-> min, max |-> max, nodeType |-> "event",
    eventType |-> "fixed", interval |-> interval, intervalMin |-> Null, intervalMax |-> Null ]

RandomEvent(id, value, min, max, intervalMin, intervalMax) ==
  [ id |-> id, value |-> value, min |-> min, max |-> max, nodeType |-> "event",
    eventType |-> "random", interval |-> Null,
    intervalMin |-> intervalMin, intervalMax |-> intervalMax ]

Edge(from, to, weight, polarity) ==
  [from |-> from, to |-> to, weight |-> weight, polarity |-> polarity]

\* A feeds B, which is held in [0, 2]: B is 1, 2, then breaches its max.
ChainModel ==
  [ nodes |-> << Regular("A", 1, Null, Null), Regular("B", 0, Some(0), Some(2)) >>,
    edges |-> << Edge("A", "B", 1, "+") >> ]

\* A fixed event broadcasting to all regular nodes, a random event wired to R.
EventModel ==
  [ nodes |-> << FixedEvent("E", 1, Null, Null, Some(2)),
                 RandomEvent("F", 1, Null, Null, Some(1), Some(2)),
                 Regular("R", 0, Null, Null) >>,
    edges |-> << Edge("F", "R", 1, "+") >> ]

\* Two fixed events, one every third step wired to R and one every step
\* (interval absent) broadcasting; R is capped at 5.
FixedModel ==
  [ nodes |-> << FixedEvent("P", 1, Null, Null, Some(3)),
                 FixedEvent("Q", 2, Null, Null, Null),
                 Regular("R", 0, Null, Some(5)) >>,
    edges |-> << Edge("P", "R", 1, "+") >> ]

WorkerModels == {ChainModel, EventModel, FixedModel}

WorkerConfigs ==
  { [dt |-> 1, steps |-> 2, intervalMs |-> Some(4)],
    [dt |-> 1, steps |-> 3, intervalMs |-> Null] }

SpeedChoices == {4, 8}

BreakpointLists ==
  { <<>>,
    << [nodeId |-> "B", condition |-> "gte", value |-> 2] >>,
    << [nodeId |-> "Z", condition |-> "eq", value |-> 0],
       [nodeId |-> "R", condition |-> "gt", value |-> 1] >> }

\* One Math.random() draw per random event node of m (a fixed event draws none).
Draws(m) ==
  LET events == SelectNodes(m.nodes, TRUE)
      isRandom(id) == \E i \in 1 .. Len(events) :
                        events[i].id = id /\ events[i].eventType = "random"
  IN  { k \in [NodeIds(events) -> 0 .. RandDen - 1] :
          \A id \in NodeIds(events) : isRandom(id) \/ k[id] = 0 }

DrawsNow == IF model = Null THEN {<<>>} ELSE Draws(The(model))

\* The node ids, conditions and thresholds the manager is called with.
ManagedIds == {"A", "B", "R"}
ManagedConditions == {"gt", "lte"}
ManagedValues == {0, 1}

\* createSimController: status idle, the default interval, no breakpoints,
\* nothing posted either way and no timeout set.
NewController ==
  [ status |-> "idle", currentIntervalMs |-> 16, currentBreakpoints |-> <<>>,
    sent |-> <<>>, received |-> <<>>, timeouts |-> <<>> ]

\* checkBreakpoints has not been called on its own.
NoCheck == [breakpoints |-> <<>>, values |-> <<>>, hit |-> Null]

\* No add for a node id since it was last removed.
NoAdd == [breakpoint |-> Null, again |-> FALSE]

\* The results hold a breakpointHit.
PostedHit(results) == \E i \in 1 .. Len(results) : results[i].type = "breakpointHit"

\* The model explores steps up to MaxStep.
MayStep == IF state = Null THEN TRUE ELSE The(state).step < MaxStep

\* ---------------------------------------------------------------- actions
Init ==
  /\ model = Fresh.model
  /\ config = Fresh.config
  /\ compiledGraph = Fresh.compiledGraph
  /\ state = Fresh.state
  /\ initialState = Fresh.initialState
  /\ loopId = Fresh.loopId
  /\ history = Fresh.history
  /\ intervalMs = Fresh.intervalMs
  /\ breakpoints = Fresh.breakpoints
  /\ timers = Fresh.timers
  /\ out = <<>>
  /\ msg = [type |-> "load"]
  /\ afterPause = "no"
  /\ afterHit = "no"
  /\ manager = NewManager
  /\ lastAdd = [id \in ManagedIds |-> NoAdd]
  /\ mem = NewMemory
  /\ check = NoCheck
  /\ ctl = NewController

OnInit ==
  \E m \in WorkerModels, c \in WorkerConfigs : \E k \in Draws(m) :
    /\ Becomes(handleInit(Cur, m, c, k))
    /\ msg' = [type |-> "init", model |-> m, config |-> c]
    /\ UNCHANGED <<afterPause, afterHit>>

OnRun ==
  /\ Becomes(handleRun(Cur))
  /\ msg' = [type |-> "run"]
  /\ afterPause' = IF afterPause = "paused" THEN "rerun" ELSE afterPause
  /\ afterHit' = IF afterHit = "hit" THEN "rerun" ELSE afterHit

OnPause ==
  /\ Becomes(handlePause(Cur))
  /\ msg' = [type |-> "pause"]
  /\ afterPause' = "paused"
  /\ UNCHANGED afterHit

OnResume ==
  /\ Becomes(handleResume(Cur))
  /\ msg' = [type |-> "resume"]
  /\ afterPause' = "no"
  /\ afterHit' = "no"

OnReset ==
  /\ Becomes(handleReset(Cur))
  /\ msg' = [type |-> "reset"]
  /\ UNCHANGED <<afterPause, afterHit>>

OnStop ==
  /\ Becomes(handleStop(Cur))
  /\ msg' = [type |-> "stop"]
  /\ UNCHANGED <<afterPause, afterHit>>

OnStep ==
  /\ MayStep
  /\ \E k \in DrawsNow : Becomes(handleStep(Cur, k))
  /\ msg' = [type |-> "step"]
  /\ UNCHANGED afterPause
  /\ afterHit' = IF PostedHit(out') THEN "hit" ELSE "no"

OnSetSpeed ==
  \E ms \in SpeedChoices :
    /\ Becomes(handleSetSpeed(Cur, ms))
    /\ msg' = [type |-> "setSpeed", intervalMs |-> ms]
    /\ UNCHANGED <<afterPause, afterHit>>

OnUpdateBreakpoints ==
  \E bps \in BreakpointLists :
    /\ Becomes(handleUpdateBreakpoints(Cur, bps))
    /\ msg' = [type |-> "updateBreakpoints", breakpoints |-> bps]
    /\ UNCHANGED <<afterPause, afterHit>>

\* An interval timer fires: the event loop calls runStep.
Tick ==
  /\ timers # {}
  /\ MayStep
  /\ \E k \in DrawsNow : Becomes(runStep(Cur, k).w)
  /\ msg' = [type |-> "tick", step |-> The(state).step + 1]
  /\ UNCHANGED afterPause
  /\ afterHit' = IF PostedHit(out') THEN "hit" ELSE afterHit

Next ==
  \/ OnInit
  \/ OnRun
  \/ OnPause
  \/ OnResume
  \/ OnReset
  \/ OnStop
  \/ OnStep
  \/ OnSetSpeed
  \/ OnUpdateBreakpoints
  \/ Tick

Spec == Init /\ [][Next]_vars

\* --------------------------------------- the breakpoint manager on its own
\* The manager as the toolbar drives it, the worker left as constructed.
WorkerIdle ==
  UNCHANGED <<model, config, compiledGraph, state, initialState, loopId, history,
              intervalMs, breakpoints, timers, out, msg, afterPause, afterHit, mem,
              check, ctl>>

Add ==
  \E id \in ManagedIds, c \in ManagedConditions, v \in ManagedValues :
    /\ manager' = add(manager, id, c, v)
    /\ lastAdd' = [lastAdd EXCEPT ![id] =
                      [ breakpoint |-> Some([nodeId |-> id, condition |-> c, value |-> v]),
                        again      |-> lastAdd[id].breakpoint # Null ]]
    /\ WorkerIdle

Remove ==
  \E id \in ManagedIds :
    /\ manager' = remove(manager, id)
    /\ lastAdd' = [lastAdd EXCEPT ![id] = NoAdd]
    /\ WorkerIdle

RemoveAll ==
  /\ manager' = removeAll(manager)
  /\ lastAdd' = [id \in ManagedIds |-> NoAdd]
  /\ WorkerIdle

NextBreakpoints ==
  \/ Add
  \/ Remove
  \/ RemoveAll

SpecBreakpoints == Init /\ [][NextBreakpoints]_vars

\* ------------------------------------------- the worker's objects on their own
\* One session: init, then any run, resume, reset, step and tick, the objects
\* allocated on the way kept at their addresses. A tick is taken whenever a
\* session exists.
MaxObjects == 22

MemoryModels == {ChainModel, FixedModel}

MemoryConfig == [dt |-> 1, steps |-> 3, intervalMs |-> Null]

OnlyMemory ==
  UNCHANGED <<model, config, compiledGraph, state, initialState, loopId, history,
              intervalMs, breakpoints, timers, out, msg, afterPause, afterHit,
              manager, lastAdd, check, ctl>>

MayAllocate == mem.state # Null /\ Len(mem.objects) < MaxObjects

MemInit ==
  /\ mem.state = Null
  /\ \E m \in MemoryModels : \E k \in Draws(m) :
       mem' = [initAt(mem, m, MemoryConfig, k) EXCEPT !.op = "init"]
  /\ OnlyMemory

MemRun ==
  /\ mem.state # Null
  /\ mem' = [runAt(mem) EXCEPT !.op = "run"]
  /\ OnlyMemory

MemResume ==
  /\ MayAllocate
  /\ mem' = [resumeAt(mem) EXCEPT !.op = "resume"]
  /\ OnlyMemory

MemReset ==
  /\ MayAllocate
  /\ mem' = [resetAt(mem) EXCEPT !.op = "reset"]
  /\ OnlyMemory

MemStep ==
  /\ MayAllocate
  /\ \E k \in Draws(The(mem.model)) : mem' = [stepAt(mem, k) EXCEPT !.op = "step"]
  /\ OnlyMemory

MemTick ==
  /\ MayAllocate
  /\ \E k \in Draws(The(mem.model)) : mem' = [runStepAt(mem, k) EXCEPT !.op = "tick"]
  /\ OnlyMemory

NextMemory ==
  \/ MemInit
  \/ MemRun
  \/ MemResume
  \/ MemReset
  \/ MemStep
  \/ MemTick

SpecMemory == Init /\ [][NextMemory]_vars

\* ------------------------------------------------------ a run left alone
\* A session is prepared by init, updateBreakpoints and step messages; once a
\* run has started the timer no further message arrives, and the timer keeps
\* firing for as long as it is active.
Listening == ~(msg.type \in {"run", "tick"} /\ state # Null)

\* A run that starts now can tick once within the steps explored.
RoomToRun == IF state = Null THEN TRUE ELSE The(state).step < MaxStep - 1

NextRun ==
  \/ Listening /\ OnInit
  \/ Listening /\ OnUpdateBreakpoints
  \/ Listening /\ RoomToRun /\ OnStep
  \/ Listening /\ OnRun
  \/ Tick

\* The active timer fires: the step of Next that names the tick of the next
\* step number.
TimerFires ==
  /\ timers # {}
  /\ MayStep
  /\ msg' = [type |-> "tick", step |-> The(state).step + 1]

SpecRun == Init /\ [][NextRun]_vars /\ WF_msg(TimerFires)

\* ------------------------------------------------- the engine on its own
\* ------------------------------------------------ controller and worker
\* The most messages posted to the worker, or results posted to the
\* controller, that wait to be delivered at once.
MaxInFlight == 2

\* The model getModel() returns and the configuration start() sends with it
\* (DEFAULT_CONFIG with the current interval), steps and dt at the scale of
\* the model explored.
SystemModel == ChainModel
SystemConfig == [dt |-> 1, steps |-> 3, intervalMs |-> Some(ctl.currentIntervalMs)]

\* A call of the controller runs while the worker stands still.
WorkerStill ==
  UNCHANGED <<model, config, compiledGraph, state, initialState, loopId, history,
              intervalMs, breakpoints, timers, out, msg, afterPause, afterHit,
              manager, lastAdd, mem, check>>

MayPost == Len(ctl.sent) < MaxInFlight

\* start(): posts init and sets the timeouts that post the breakpoints, when
\* there are any, and run. One start() is explored at a time: the next is
\* called once the timeouts of the last have expired.
start ==
  /\ MayPost
  /\ ctl.timeouts = <<>>
  /\ ctl' = [ctl EXCEPT
       !.sent = Append(@, [type |-> "init", model |-> SystemModel, config |-> SystemConfig]),
       !.timeouts = @ \o (IF Len(ctl.currentBreakpoints) > 0
                          THEN <<"updateBreakpoints">> ELSE <<>>) \o <<"run">>]
  /\ WorkerStill

\* The earliest timeout of start() expires.
StartTimeout ==
  /\ ctl.timeouts # <<>>
  /\ ctl' = IF Head(ctl.timeouts) = "run"
            THEN [ctl EXCEPT !.timeouts = Tail(@),
                             !.sent = Append(@, [type |-> "run"]),
                             !.status = "running"]
            ELSE [ctl EXCEPT !.timeouts = Tail(@),
                             !.sent = Append(@, [type |-> "updateBreakpoints",
                                                 breakpoints |-> ctl.currentBreakpoints])]
  /\ WorkerStill

\* pause()
pause ==
  /\ MayPost
  /\ ctl' = [ctl EXCEPT !.sent = Append(@, [type |-> "pause"]), !.status = "paused"]
  /\ WorkerStill

\* resume(): the status waits for the worker's resumed.
resume ==
  /\ MayPost
  /\ ctl' = [ctl EXCEPT !.sent = Append(@, [type |-> "resume"])]
  /\ WorkerStill

\* reset()
reset ==
  /\ MayPost
  /\ ctl' = [ctl EXCEPT !.sent = Append(@, [type |-> "reset"]), !.status = "idle"]
  /\ WorkerStill

\* step()
step ==
  /\ MayPost
  /\ ctl' = [ctl EXCEPT !.sent = Append(@, [type |-> "step"])]
  /\ WorkerStill

\* self.onmessage of the worker on message m, with draws k.
onmessage(w, m, k) ==
  CASE m.type = "init"   -> handleInit(w, m.model, m.config, k)
    [] m.type = "run"    -> handleRun(w)
    [] m.type = "pause"  -> handlePause(w)
    [] m.type = "resume" -> handleResume(w)
    [] m.type = "reset"  -> handleReset(w)
    [] m.type = "step"   -> handleStep(w, k)
    [] m.type = "updateBreakpoints" -> handleUpdateBreakpoints(w, m.breakpoints)

MayReply == Len(ctl.received) < MaxInFlight

\* The worker takes the message posted first; its results wait for the
\* controller in the order they were posted.
WorkerReceives ==
  /\ ctl.sent # <<>>
  /\ MayReply
  /\ Head(ctl.sent).type = "step" => MayStep
  /\ \E k \in (IF Head(ctl.sent).type = "init" THEN Draws(Head(ctl.sent).model) ELSE DrawsNow) :
       Handled(onmessage(Cur, Head(ctl.sent), k))
  /\ ctl' = [ctl EXCEPT !.sent = Tail(@), !.received = @ \o out']
  /\ msg' = Head(ctl.sent)
  /\ UNCHANGED <<afterPause, afterHit>>

\* The worker's timer fires and the results of the step are posted back.
WorkerTick ==
  /\ timers # {}
  /\ MayStep
  /\ MayReply
  /\ \E k \in DrawsNow : Handled(runStep(Cur, k).w)
  /\ ctl' = [ctl EXCEPT !.received = @ \o out']
  /\ msg' = [type |-> "tick", step |-> The(state).step + 1]
  /\ UNCHANGED <<afterPause, afterHit>>

\* worker.onmessage of the controller: the status a result leaves.
StatusAfter(status, result) ==
  CASE result.type = "paused"        -> "paused"
    [] result.type = "resumed"       -> "running"
    [] result.type = "done"          -> "done"
    [] result.type = "breakpointHit" -> "paused"
    [] result.type = "error"         -> "idle"
    [] OTHER                         -> status

\* The controller takes the result posted first.
ControllerReceives ==
  /\ ctl.received # <<>>
  /\ ctl' = [ctl EXCEPT !.received = Tail(@),
                        !.status = StatusAfter(@, Head(ctl.received))]
  /\ WorkerStill

NextSystem ==
  \/ start
  \/ StartTimeout
  \/ pause
  \/ resume
  \/ reset
  \/ step
  \/ WorkerReceives
  \/ WorkerTick
  \/ ControllerReceives

SpecSystem == Init /\ [][NextSystem]_vars

\* ---------------------------------------------------- compileGraph on its own
\* The longest edge list of a compiled model.
MaxEdges == 2

\* Nodes X and Y, Y regular or an event; validateModel asks nothing of an
\* edge's from and to but to be non-empty strings, so W, which names no node,
\* is an endpoint like the others.
CompiledNodeLists ==
  { << Regular("X", 1, Null, Null), y >> :
      y \in { Regular("Y", 0, Null, Null), FixedEvent("Y", 1, Null, Null, Some(2)) } }

CompiledEdges ==
  { Edge(a, b, wp[1], wp[2]) :
      a \in {"X", "Y", "W"}, b \in {"X", "Y", "W"}, wp \in {<<1, "+">>, <<2, "-">>} }

CompiledModels ==
  { [nodes |-> ns, edges |-> es] :
      ns \in CompiledNodeLists,
      es \in UNION { [1 .. n -> CompiledEdges] : n \in 0 .. MaxEdges } }

CompiledConfig == [dt |-> 1, steps |-> 3, intervalMs |-> Null]

\* init on a fresh worker: compileGraph(msg.model) is kept in compiledGraph.
Compile ==
  /\ model = Null
  /\ \E m \in CompiledModels : \E k \in Draws(m) :
       /\ Becomes(handleInit(Cur, m, CompiledConfig, k))
       /\ msg' = [type |-> "init", model |-> m, config |-> CompiledConfig]
  /\ UNCHANGED <<afterPause, afterHit>>

SpecCompile == Init /\ [][Compile]_vars

\* ------------------------------------------------ checkBreakpoints on its own
\* The longest breakpoint list checkBreakpoints is called with.
MaxBreakpoints == 3

\* The breakpoints of a list: on a node of the value map or on a node absent
\* from it, with each of the five conditions, against the threshold 1.
CheckedBreakpoints ==
  { [nodeId |-> id, condition |-> c, value |-> 1] :
      id \in {"A", "Z"}, c \in {"eq", "gt", "lt", "gte", "lte"} }

CheckedLists ==
  UNION { [1 .. n -> CheckedBreakpoints] : n \in 0 .. MaxBreakpoints }

\* The value maps: node A below, on and above the threshold.
CheckedValues == { [id \in {"A"} |-> v] : v \in {0, 1, 2} }

\* runStep's call checkBreakpoints(state.values) with the list registered;
\* the function keeps nothing between calls, so each behaviour makes one.
CheckBreakpoints ==
  /\ check = NoCheck
  /\ \E bps \in CheckedLists, values \in CheckedValues :
       check' = [breakpoints |-> bps, values |-> values,
                 hit |-> checkBreakpoints(bps, values)]
  /\ UNCHANGED <<model, config, compiledGraph, state, initialState, loopId, history,
                 intervalMs, breakpoints, timers, out, msg, afterPause, afterHit,
                 manager, lastAdd, mem, ctl>>

SpecCheck == Init /\ [][CheckBreakpoints]_vars

\* A session initialised with any model of a family and then stepped by step
\* messages only: every state is createInitialState followed by computeStep
\* applied Len(history) times.
DefaultSteps == 1000

DtChoices == {0, 1, 2}

NoBounds == [min |-> Null, max |-> Null]
Unit == [min |-> Some(0), max |-> Some(2)]

\* The first node: regular, inside or outside its bounds.
FirstNodes ==
  { Regular("X", v, b.min, b.max) : v \in {1, 3}, b \in {NoBounds, Unit} }

\* The second node: regular.
SecondNodes ==
  { Regular("Y", 1, b.min, b.max) : b \in {NoBounds, Unit} }

\* The third node: regular, a fixed event or a random event.
ThirdNodes ==
  { Regular("E", -1, Null, Null),
    FixedEvent("E", 0, Null, Null, Some(2)),
    FixedEvent("E", 1, Null, Null, Null),
    FixedEvent("E", 5, Some(0), Some(2), Some(3)),
    RandomEvent("E", 1, Null, Null, Null, Null),
    RandomEvent("E", -2, Null, Null, Some(2), Null),
    RandomEvent("E", 1, Null, Null, Null, Some(2)),
    RandomEvent("E", 1, Null, Null, Some(1), Some(3)) }

EdgeLists ==
  { <<>>,
    << Edge("X", "Y", 1, "+") >>,
    << Edge("X", "Y", 2, "-"), Edge("Y", "X", 1, "+") >>,
    << Edge("E", "Y", 3, "+"), Edge("E", "E", 1, "+"), Edge("Y", "Y", 1, "-") >>,
    << Edge("E", "Y", 2, "-"), Edge("E", "Y", 1, "+"), Edge("X", "Y", 1, "+") >> }

EngineModels ==
  { [nodes |-> <<x, y, e>>, edges |-> es] :
      x \in FirstNodes, y \in SecondNodes, e \in ThirdNodes, es \in EdgeLists }

EngineConfigs ==
  { [dt |-> d, steps |-> DefaultSteps, intervalMs |-> Null] : d \in DtChoices }

InitEngine ==
  \E m \in EngineModels, c \in EngineConfigs : \E k \in Draws(m) :
    LET w == handleInit(Fresh, m, c, k)
    IN  /\ model = w.model
        /\ config = w.config
        /\ compiledGraph = w.compiledGraph
        /\ state = w.state
        /\ initialState = w.initialState
        /\ loopId = w.loopId
        /\ history = w.history
        /\ intervalMs = w.intervalMs
        /\ breakpoints = w.breakpoints
        /\ timers = w.timers
        /\ out = w.out
        /\ msg = [type |-> "init", model |-> m, config |-> c]
        /\ afterPause = "no"
        /\ afterHit = "no"
        /\ manager = NewManager
        /\ lastAdd = [id \in ManagedIds |-> NoAdd]
        /\ mem = NewMemory
        /\ check = NoCheck
        /\ ctl = NewController

NextEngine == OnStep

SpecEngine == InitEngine /\ [][NextEngine]_vars

\* ------------------------------------------------------------- properties
\* Everything of the session but the results posted and the message processed.
session == <<model, config, compiledGraph, state, initialState, loopId, history,
             intervalMs, breakpoints, timers>>

Types(results) == {results[i].type : i \in 1 .. Len(results)}

\* C1 as stated: every message other than init that arrives before any init
\* is answered by exactly one error and leaves the session as it was.
C1_Original ==
  [][ (state = Null /\ msg'.type # "init")
        => (out' = <<NotInitialized>> /\ UNCHANGED session) ]_vars

\* C1 amended: before any init, run, resume, reset and step are answered by
\* exactly one error and change nothing; pause posts nothing and changes
\* nothing; stop posts done with the empty history and changes nothing;
\* setSpeed and updateBreakpoints post nothing and store the new interval and
\* the new breakpoint list.
C1_Amended ==
  [][ state = Null =>
        /\ msg'.type \in {"run", "resume", "reset", "step"}
             => (out' = <<NotInitialized>> /\ UNCHANGED session)
        /\ msg'.type = "pause" => (out' = <<>> /\ UNCHANGED session)
        /\ msg'.type = "stop"
             => (out' = <<[type |-> "done", history |-> <<>>]>> /\ UNCHANGED session)
        /\ msg'.type = "setSpeed"
             => /\ out' = <<>>
                /\ intervalMs' = msg'.intervalMs
                /\ UNCHANGED <<model, config, compiledGraph, state, initialState,
                               loopId, history, breakpoints, timers>>
        /\ msg'.type = "updateBreakpoints"
             => /\ out' = <<>>
                /\ breakpoints' = msg'.breakpoints
                /\ UNCHANGED <<model, config, compiledGraph, state, initialState,
                               loopId, history, intervalMs, timers>> ]_vars

\* A reset before any init was answered by the error, after the interval and
\* the breakpoints had been set without a session.
C1_Witness ==
  /\ state = Null
  /\ msg.type = "reset"
  /\ out = <<NotInitialized>>
  /\ intervalMs = 8
  /\ breakpoints # <<>>

\* C2: run, resume or step before init posts exactly one error and does nothing
\* else: no timer, no step, no state / resumed / stepped result, history empty.
C2_RunResumeStepRejected ==
  [][ (state = Null /\ msg'.type \in {"run", "resume", "step"})
        => /\ out' = <<NotInitialized>>
           /\ timers' = {} /\ loopId' = Null
           /\ state' = Null
           /\ history' = <<>>
           /\ UNCHANGED session ]_vars

\* A step message was rejected on a worker that has no session.
C2_Witness ==
  /\ state = Null
  /\ initialState = Null
  /\ msg.type = "step"
  /\ out = <<NotInitialized>>
  /\ timers = {}

\* The last handler computed a step: a timer tick or a step message on a session.
Stepped == msg.type \in {"tick", "step"} /\ state # Null

\* C3: a step whose snapshot carries a breach posts the state and then paused
\* with that breach, and no breakpointHit, whatever the breakpoints say.
C3_BreachBeforeBreakpoint ==
  (Stepped /\ The(state).breached # Null)
    => /\ out = << [type |-> "state", snapshot |-> Snapshot(The(state))],
                   [type |-> "paused", breach |-> The(The(state).breached)] >>
       /\ "breakpointHit" \notin Types(out)

\* A step breached while the clamped values satisfy a registered breakpoint.
C3_Witness ==
  /\ Stepped
  /\ The(state).breached # Null
  /\ checkBreakpoints(breakpoints, The(state).values) # Null
  /\ "paused" \in Types(out)

\* C4 as stated: once a pause has been processed no tick computes a step until
\* a resume is processed, whatever other messages arrive in between.
C4_Original == msg.type = "tick" => afterPause = "no"

\* C4 amended: once a pause has been processed no timer is active and no tick
\* computes a step until a resume or a run is processed.
C4_Amended == afterPause = "paused" => (timers = {} /\ msg.type # "tick")

\* A running session was paused and then got another message; no timer is active.
C4_Witness ==
  /\ afterPause = "paused"
  /\ msg.type = "setSpeed"
  /\ state # Null
  /\ The(state).step > 0
  /\ timers = {}

\* C5: a step message on a session advances the step counter by exactly one,
\* timer or no timer; stepped is posted only when the step left no breach and
\* hit no breakpoint; a breach posts paused, a hit posts breakpointHit, and
\* neither is followed by stepped.
C5_ManualStep ==
  [][ (state # Null /\ msg'.type = "step") =>
        LET new == The(state')
            hit == checkBreakpoints(breakpoints', new.values)
        IN  /\ new.step = The(state).step + 1
            /\ out'[1] = [type |-> "state", snapshot |-> Snapshot(new)]
            /\ "stepped" \in Types(out') => (new.breached = Null /\ hit = Null)
            /\ new.breached # Null
                 => ("paused" \in Types(out') /\ "stepped" \notin Types(out'))
            /\ (new.breached = Null /\ hit # Null)
                 => ("breakpointHit" \in Types(out') /\ "stepped" \notin Types(out'))
            /\ (The(state).breached # Null /\ "stepped" \in Types(out'))
                 => new.breached = Null ]_vars

\* A step message succeeded while the timer was running.
C5_Witness ==
  /\ msg.type = "step"
  /\ state # Null
  /\ timers # {}
  /\ Len(out) = 2
  /\ out[2].type = "stepped"

\* C6: no tick takes the step counter beyond the configured step budget.
C6_BudgetBoundsTicks ==
  (msg.type = "tick" /\ state # Null) => The(state).step <= The(config).steps

\* The steps of the snapshots of h go up by one and end at step n.
ConsecutiveTo(h, n) ==
  /\ \A i \in 1 .. Len(h) - 1 : h[i + 1].step = h[i].step + 1
  /\ h # <<>> => h[Len(h)].step = n

\* The last handler computed a step that posted done for the reached budget.
BudgetDone == Stepped /\ out # <<>> /\ out[Len(out)].type = "done"

\* C7 as stated: done posted for the reached budget carries exactly one snapshot
\* for each step 1 .. budget, in step order.
C7_Original ==
  BudgetDone =>
    LET h == out[Len(out)].history
    IN  /\ Len(h) = The(config).steps
        /\ \A i \in 1 .. Len(h) : h[i].step = i

\* C7 amended: done posted for the reached budget carries the worker's history,
\* which holds one snapshot for each step computed since it was last emptied
\* (by init, reset or run), in consecutive step order, ending with the snapshot
\* of the current step, whose number is at least the budget.
C7_Amended ==
  [][ /\ \/ history' = history
         \/ /\ msg'.type \in {"tick", "step"}
            /\ history' = Append(history, Snapshot(The(state')))
            /\ The(state').step = The(state).step + 1
         \/ /\ msg'.type \in {"init", "reset", "run"}
            /\ history' = <<>>
      /\ BudgetDone' =>
           /\ out'[Len(out')].history = history'
           /\ history' # <<>>
           /\ ConsecutiveTo(history', The(state').step)
           /\ The(state').step >= The(config').steps ]_vars

\* A tick posted done with a history that starts after step 1.
C7_Witness ==
  /\ BudgetDone
  /\ msg.type = "tick"
  /\ out[Len(out)].history[1].step > 1

\* C8: reset on a session stops the timer, puts back the initial state (step 0,
\* the model's node values, no breach, the schedule computed at init), empties
\* the history and posts one state result for step 0; a reset that follows a
\* reset changes nothing.
C8_Reset ==
  [][ /\ (initialState # Null /\ msg'.type = "reset") =>
           /\ timers' = {} /\ loopId' = Null
           /\ state' = initialState
           /\ The(state').step = 0
           /\ \A i \in 1 .. Len(The(model).nodes) :
                The(state').values[The(model).nodes[i].id] = The(model).nodes[i].value
           /\ The(state').breached = Null
           /\ The(state').eventNextTrigger = The(initialState).eventNextTrigger
           /\ history' = <<>>
           /\ out' = << [type |-> "state",
                         snapshot |-> [step |-> 0, values |-> The(initialState).values]] >>
           /\ UNCHANGED <<model, config, compiledGraph, initialState,
                          intervalMs, breakpoints>>
      /\ (initialState # Null /\ msg.type = "reset" /\ msg'.type = "reset")
           => UNCHANGED vars ]_vars

\* A reset put back the schedule drawn at init for the random event.
C8_Witness ==
  /\ msg.type = "reset"
  /\ state # Null
  /\ state = initialState
  /\ "F" \in DOMAIN The(state).eventNextTrigger
  /\ The(state).eventNextTrigger["F"] = 2
  /\ timers = {}

\* Node n declares both bounds, consistently.
Bounded(n) == n.min # Null /\ n.max # Null /\ The(n.min) <= The(n.max)

InBounds(n, v) == The(n.min) <= v /\ v <= The(n.max)

\* C9 as stated: in every state, every node with both bounds, regular or event,
\* has its value within them.
C9_Original ==
  state # Null =>
    \A n \in Range(The(model).nodes) :
      Bounded(n) => InBounds(n, The(state).values[n.id])

\* C9 amended: in every state produced by a step (step >= 1), every regular
\* node with both bounds has its value within them; event nodes and the
\* initial state are not clamped.
C9_Amended ==
  (state # Null /\ The(state).step >= 1) =>
    \A n \in Range(The(model).nodes) :
      (Bounded(n) /\ n.nodeType # "event") => InBounds(n, The(state).values[n.id])

\* A regular node that started above its max has been clamped by a step.
C9_Witness ==
  /\ state # Null
  /\ The(state).step >= 1
  /\ \E n \in Range(The(model).nodes) :
       /\ Bounded(n) /\ n.nodeType # "event"
       /\ ~InBounds(n, n.value)
       /\ InBounds(n, The(state).values[n.id])

\* Node n's initial value satisfies the bounds n declares.
StartsInside(n) ==
  /\ n.max # Null => n.value <= The(n.max)
  /\ n.min # Null => n.value >= The(n.min)

\* C10 as stated: for a model with no edges, computeStep applied N times to
\* the initial state leaves every value unchanged and step = N.
C10_Original ==
  (state # Null /\ The(model).edges = <<>>)
    => /\ The(state).values = The(initialState).values
       /\ The(state).step = Len(history)

\* C10 amended: computeStep applied N times gives step = N; for a model with no
\* edges whose event nodes all have value 0 and whose regular nodes start
\* within their own bounds, it leaves every value unchanged.
C10_Amended ==
  state # Null =>
    /\ The(state).step = Len(history)
    /\ ( /\ The(model).edges = <<>>
         /\ \A n \in Range(The(model).nodes) :
              IF n.nodeType = "event" THEN n.value = 0 ELSE StartsInside(n) )
       => The(state).values = The(initialState).values

\* A model without edges, with bounds and an event that has fired, after two steps.
C10_Witness ==
  /\ state # Null
  /\ The(model).edges = <<>>
  /\ \A n \in Range(The(model).nodes) :
       IF n.nodeType = "event" THEN n.value = 0 ELSE StartsInside(n)
  /\ \E n \in Range(The(model).nodes) : n.nodeType = "event"
  /\ \E n \in Range(The(model).nodes) : Bounded(n)
  /\ Len(history) >= 2
  /\ The(state).triggeredEvents # <<>>

\* Value v satisfies each bound node n declares.
ValueInside(n, v) ==
  /\ n.max # Null => v <= The(n.max)
  /\ n.min # Null => v >= The(n.min)

\* C11 as stated: with dt = 0, a step on a state whose values are within
\* bounds returns the input values and no breach, events firing or not.
C11_Original ==
  [][ ( /\ state # Null /\ msg'.type = "step"
        /\ The(config).dt = 0
        /\ \A n \in Range(The(model).nodes) : ValueInside(n, The(state).values[n.id]) )
      => /\ The(state').values = The(state).values
         /\ The(state').breached = Null ]_vars

\* C11 amended: with dt = 0, a step on a state whose regular values are within
\* bounds returns the input values and no breach provided every event that
\* fires on the step has value 0; the pulse of a firing event is not scaled
\* by dt.
C11_Amended ==
  [][ ( /\ state # Null /\ msg'.type = "step"
        /\ The(config).dt = 0
        /\ \A n \in Range(The(model).nodes) :
             n.nodeType # "event" => ValueInside(n, The(state).values[n.id])
        /\ \A id \in Range(The(state').triggeredEvents) : The(state).values[id] = 0 )
      => /\ The(state').values = The(state).values
         /\ The(state').breached = Null ]_vars

\* With dt = 0 an event fired over a graph whose edges carry non-zero sources,
\* and the values are still those of the initial state.
C11_Witness ==
  /\ state # Null
  /\ msg.type = "step"
  /\ The(config).dt = 0
  /\ The(state).triggeredEvents # <<>>
  /\ \E e \in Range(The(model).edges) :
       e.weight * The(initialState).values[e.from] # 0
  /\ \E n \in Range(The(model).nodes) : Bounded(n) /\ n.nodeType # "event"
  /\ The(state).values = The(initialState).values
  /\ The(state).breached = Null

\* C12: in every state of a session, whatever messages and ticks drove it
\* there from init or from a reset, a fixed event node with interval k (1 when
\* absent) is in triggeredEvents exactly when the step counter is a positive
\* multiple of k.
C12_FixedEventSteps ==
  state # Null =>
    \A n \in Range(The(model).nodes) :
      (n.nodeType = "event" /\ n.eventType = "fixed") =>
        LET k == OrElse(n.interval, 1)
            s == The(state).step
        IN  (n.id \in Range(The(state).triggeredEvents)) <=> (s >= 1 /\ s % k = 0)

\* The event with interval 3 fired on a tick at step 3, beyond a budget of 2
\* steps, so after the timer had been stopped and started again.
C12_Witness ==
  /\ state # Null
  /\ msg.type = "tick"
  /\ The(config).steps = 2
  /\ The(state).step = 3
  /\ \E n \in Range(The(model).nodes) :
       /\ n.nodeType = "event" /\ n.eventType = "fixed" /\ n.interval = Some(3)
       /\ n.id \in Range(The(state).triggeredEvents)

\* The interval bounds a random event node draws from.
IntervalLo(n) == OrElse(n.intervalMin, 1)
IntervalHi(n) == OrElse(n.intervalMax, IntervalLo(n))

\* C13: for a random event node with intervalMin a (1 when absent) and
\* intervalMax b (a when absent), the initial schedule lies in [a, b] and the
\* schedule set when the event fires at step s lies in [s + a, s + b], so it is
\* exactly s + a when intervalMax is absent.
C13_RandomSchedule ==
  state # Null =>
    \A n \in Range(The(model).nodes) :
      (n.nodeType = "event" /\ n.eventType = "random") =>
        LET s    == The(state).step
            next == The(state).eventNextTrigger[n.id]
        IN  /\ s = 0 => (IntervalLo(n) <= next /\ next <= IntervalHi(n))
            /\ n.id \in Range(The(state).triggeredEvents)
                 => (s + IntervalLo(n) <= next /\ next <= s + IntervalHi(n))
            /\ (n.intervalMax = Null /\ (s = 0 \/ n.id \in Range(The(state).triggeredEvents)))
                 => next = s + IntervalLo(n)

\* A random event with intervals 1 to 3 fired after step 1 and was rescheduled
\* the farthest it can be.
C13_Witness ==
  /\ state # Null
  /\ The(state).step >= 2
  /\ \E n \in Range(The(model).nodes) :
       /\ n.nodeType = "event" /\ n.eventType = "random"
       /\ n.intervalMin = Some(1) /\ n.intervalMax = Some(3)
       /\ n.id \in Range(The(state).triggeredEvents)
       /\ The(state).eventNextTrigger[n.id] = The(state).step + 3

\* C14: in every state each event node's next trigger is strictly greater than
\* the step counter and each event id occurs at most once in triggeredEvents;
\* and a step fires an event exactly when the step it reaches is the event's
\* scheduled trigger.
C14_FiresOnceOnTime ==
  /\ [](state # Null =>
          LET st == The(state)
          IN  /\ \A n \in Range(The(model).nodes) :
                   n.nodeType = "event" => st.eventNextTrigger[n.id] > st.step
              /\ \A i, j \in 1 .. Len(st.triggeredEvents) :
                   st.triggeredEvents[i] = st.triggeredEvents[j] => i = j)
  /\ [][ (state # Null /\ msg'.type = "step") =>
           \A n \in Range(The(model).nodes) :
             n.nodeType = "event" =>
               ( (n.id \in Range(The(state').triggeredEvents))
                   <=> (The(state).eventNextTrigger[n.id] = The(state').step) ) ]_vars

\* An event first scheduled two or more steps ahead fired when that step came.
C14_Witness ==
  /\ state # Null
  /\ Len(history) >= 2
  /\ The(state).step = The(initialState).eventNextTrigger["E"]
  /\ The(state).triggeredEvents = <<"E">>
  /\ The(state).eventNextTrigger["E"] > The(state).step

\* The value regular node n would take in the step from st before clamping.
RawOf(n, st, graph, dt) ==
  LET ev == EventLoop(1,
              [ triggeredEvents     |-> <<>>,
                eventDeltas         |-> <<>>,
                newEventNextTrigger |-> st.eventNextTrigger ],
              st, graph, [id \in NodeIds(graph.eventNodes) |-> 0])
  IN  RawNext(st.values[n.id], dt,
              EdgeSum(graph.incomingEdges[n.id], st, graph),
              Lookup(ev.eventDeltas, n.id, 0))

\* The positions, in insertion order, of the regular nodes whose raw value in
\* the step from st violates a bound they declare.
BreachingIn(st, graph, dt) ==
  { i \in 1 .. Len(graph.nodes) :
      /\ graph.nodes[i].nodeType # "event"
      /\ ~ValueInside(graph.nodes[i], RawOf(graph.nodes[i], st, graph, dt)) }

\* C15: a step records no breach when no node breaches; otherwise it records
\* exactly the breach of the first breaching node in insertion order (its id,
\* the violated constraint, its raw value and the limit), and every breaching
\* node, recorded or not, ends the step on the bound it violated.
C15_FirstBreachAllClamped ==
  [][ (state # Null /\ msg'.type = "step") =>
        LET graph == The(compiledGraph)
            dt    == The(config).dt
            B     == BreachingIn(The(state), graph, dt)
            limit(i) == LET n == graph.nodes[i]
                        IN  IF n.max # Null /\ RawOf(n, The(state), graph, dt) > The(n.max)
                            THEN [constraint |-> "max", limit |-> The(n.max)]
                            ELSE [constraint |-> "min", limit |-> The(n.min)]
        IN  /\ B = {} <=> The(state').breached = Null
            /\ B # {} =>
                 LET f == CHOOSE i \in B : \A j \in B : i <= j
                 IN  The(state').breached =
                       Some([ nodeId     |-> graph.nodes[f].id,
                              constraint |-> limit(f).constraint,
                              value      |-> RawOf(graph.nodes[f], The(state), graph, dt),
                              limit      |-> limit(f).limit ])
            /\ \A i \in B : The(state').values[graph.nodes[i].id] = limit(i).limit ]_vars

\* The first step pushed X above its max and Y below its min: X's breach is
\* the one recorded and both sit on the bound they violated.
C15_Witness ==
  /\ state # Null
  /\ Len(history) = 1
  /\ LET B == BreachingIn(The(initialState), The(compiledGraph), The(config).dt)
     IN  /\ Cardinality(B) >= 2
         /\ \E i, j \in B : i < j /\ The(compiledGraph).nodes[j].id = "Y"
                            /\ The(state).values["Y"] = 0
  /\ The(state).breached # Null
  /\ The(The(state).breached).nodeId = "X"
  /\ The(The(state).breached).constraint = "max"
  /\ The(state).values["X"] = 2

\* Breakpoint bp is satisfied by values.
Satisfied(bp, values) ==
  bp.nodeId \in DOMAIN values /\ checkBreakpointCondition(bp, values[bp.nodeId])

\* A step that leaves no breach and satisfies a registered breakpoint posts
\* the state and then breakpointHit with the first satisfied breakpoint and
\* its node's post-step value, and leaves no timer.
HaltsOnHit ==
  (state # Null /\ msg'.type \in {"tick", "step"}) =>
    LET new  == The(state')
        sat  == {i \in 1 .. Len(breakpoints) : Satisfied(breakpoints[i], new.values)}
    IN  (new.breached = Null /\ sat # {}) =>
          LET bp == breakpoints[CHOOSE i \in sat : \A j \in sat : i <= j]
          IN  /\ out' = << [type |-> "state", snapshot |-> Snapshot(new)],
                           [type |-> "breakpointHit",
                            hit  |-> [breakpoint  |-> bp,
                                      actualValue |-> new.values[bp.nodeId]]] >>
              /\ timers' = {} /\ loopId' = Null

\* C16 as stated: a step without breach that satisfies a breakpoint posts
\* breakpointHit with the breakpoint and the actual value and stops the timer,
\* and no tick computes a step from then until a resume or a step message is
\* processed.
C16_Original ==
  [][ HaltsOnHit /\ (msg'.type = "tick" => afterHit = "no") ]_vars

\* C16 amended: a step without breach that satisfies a breakpoint posts
\* breakpointHit with the breakpoint and the actual value and stops the timer,
\* and no timer is active and no tick computes a step from then until a
\* resume, a step or a run message is processed.
C16_Amended ==
  /\ [](afterHit = "hit" => timers = {})
  /\ [][ HaltsOnHit /\ (msg'.type = "tick" => afterHit # "hit") ]_vars

\* A tick hit the second breakpoint of the list and other messages followed;
\* no timer is active.
C16_Witness ==
  /\ afterHit = "hit"
  /\ msg.type = "setSpeed"
  /\ state # Null
  /\ The(state).breached = Null
  /\ Len(breakpoints) = 2
  /\ Satisfied(breakpoints[2], The(state).values)
  /\ The(state).step >= 2
  /\ timers = {}

\* The result types that end automatic stepping.
Halting == {"paused", "breakpointHit", "done"}

\* C17: the results of a step hold at most one of paused, breakpointHit and
\* done: paused if the step breached, else breakpointHit if a breakpoint is
\* satisfied, else done if the budget is reached, else none; when one is
\* posted no timer is left. A tick needs an active timer, and with no timer
\* active only a run or resume message starts one.
C17_OneHaltPerStep ==
  /\ [](Stepped =>
          LET st   == The(state)
              halt == {i \in 1 .. Len(out) : out[i].type \in Halting}
              want == IF st.breached # Null THEN {"paused"}
                      ELSE IF \E i \in 1 .. Len(breakpoints) :
                                Satisfied(breakpoints[i], st.values)
                      THEN {"breakpointHit"}
                      ELSE IF st.step >= The(config).steps THEN {"done"}
                      ELSE {}
          IN  /\ Cardinality(halt) <= 1
              /\ Types(out) \cap Halting = want
              /\ halt # {} => (timers = {} /\ loopId = Null))
  /\ [][ /\ msg'.type = "tick" => timers # {}
         /\ (timers = {} /\ timers' # {}) => msg'.type \in {"run", "resume"} ]_vars

\* A tick breached on the step that also satisfies a breakpoint and reaches
\* the budget: paused alone was posted and the timer is gone.
C17_Witness ==
  /\ Stepped
  /\ msg.type = "tick"
  /\ The(state).breached # Null
  /\ \E i \in 1 .. Len(breakpoints) : Satisfied(breakpoints[i], The(state).values)
  /\ The(state).step >= The(config).steps
  /\ Types(out) = {"state", "paused"}
  /\ timers = {}

\* C20: updateBreakpoints makes the worker's breakpoint list the list of the
\* message, and every other message (init, run, pause, resume, reset, stop,
\* step, setSpeed) and every tick leaves the list as it was, order included.
C20_BreakpointsFrame ==
  [][ IF msg'.type = "updateBreakpoints"
      THEN breakpoints' = msg'.breakpoints
      ELSE breakpoints' = breakpoints ]_vars

\* A session that halted on a breakpoint was replaced by init and the two
\* breakpoints are still registered.
C20_Witness ==
  /\ msg.type = "init"
  /\ afterHit = "hit"
  /\ Len(breakpoints) = 2
  /\ state # Null
  /\ The(state).step = 0

\* C19: after any sequence of add, remove and removeAll the manager's list
\* holds at most one breakpoint per node id, and for each node id it holds
\* exactly the breakpoint of the most recent add for that id not followed by a
\* remove of the id or a removeAll, and none if there is no such add.
C19_LastWriteWins ==
  LET all == getAll(manager)
  IN  /\ \A i, j \in 1 .. Len(all) : all[i].nodeId = all[j].nodeId => i = j
      /\ \A id \in ManagedIds :
           {all[i] : i \in {j \in 1 .. Len(all) : all[j].nodeId = id}}
             = lastAdd[id].breakpoint
      /\ \A i \in 1 .. Len(all) : all[i].nodeId \in ManagedIds

\* A second add for the first node id of the list replaced its condition and
\* threshold in place, two other ids being registered after it, and the
\* callbacks received the list.
C19_Witness ==
  /\ Len(getAll(manager)) = 3
  /\ getAll(manager)[1] = [nodeId |-> "B", condition |-> "lte", value |-> 1]
  /\ lastAdd["B"].again
  /\ ~lastAdd["A"].again
  /\ manager.notified = Some(getAll(manager))

\* The addresses a state or snapshot object at a refers to, a included.
Reaches(objects, a) ==
  IF objects[a].kind = "state"
  THEN {a, objects[a].values, objects[a].eventNextTrigger, objects[a].triggeredEvents}
  ELSE {a, objects[a].values}

\* The addresses reached from the current state, from the retained initial
\* state and from the snapshots in the history.
Retained(h) ==
  UNION ( {Reaches(h.objects, a) : a \in h.state \cup h.initialState}
          \cup {Reaches(h.objects, h.history[i]) : i \in 1 .. Len(h.history)} )

\* C18: no step, resume, reset or other message changes an object reached from
\* the state it starts from, from the retained initial state or from a
\* snapshot in the history; and a tick or step leaves the state at an address
\* that was not in use, with a values map at an address that was not in use,
\* the object computeStep read being unchanged.
C18_NoMutation ==
  [][ /\ \A a \in Retained(mem) :
           a \in 1 .. Len(mem'.objects) /\ mem'.objects[a] = mem.objects[a]
      /\ mem'.op \in {"tick", "step"} =>
           LET new == The(mem'.state)
           IN  /\ new \notin 1 .. Len(mem.objects)
               /\ mem'.objects[new].values \notin 1 .. Len(mem.objects)
               /\ mem'.objects[new].values # mem'.objects[The(mem.state)].values
               /\ Deref(mem'.objects, The(mem.state)) = Deref(mem.objects, The(mem.state))
               /\ \A i \in 1 .. Len(mem'.history) :
                    mem'.objects[mem'.history[i]].values # mem'.objects[new].values ]_vars

\* A step put a second snapshot in the history, a resume or a reset having
\* been processed before it: the first snapshot and the initial state hold
\* values that differ from the current ones.
C18_Witness ==
  /\ mem.op = "step"
  /\ Len(mem.history) = 2
  /\ mem.objects[mem.history[1]].step = 1
  /\ Len(mem.objects) > 20
  /\ LET now == Deref(mem.objects, The(mem.state)).values
     IN  /\ mem.objects[mem.objects[mem.history[1]].values].entries # now
         /\ Deref(mem.objects, The(mem.initialState)).values # now
         /\ mem.objects[mem.objects[mem.history[2]].values].entries = now

\* C21: setSpeed stores the interval of the message; a timer active when it is
\* processed is replaced by one timer with the new interval, and with no timer
\* active none is started; setSpeed posts nothing, computes no step and
\* leaves state (step, values), history and the rest of the session alone.
C21_SetSpeed ==
  [][ msg'.type = "setSpeed" =>
        /\ intervalMs' = msg'.intervalMs
        /\ timers # {} =>
             /\ Cardinality(timers') = 1
             /\ \A t \in timers' : t.ms = msg'.intervalMs /\ loopId' = Some(t.id)
        /\ timers = {} => (timers' = {} /\ loopId' = Null)
        /\ out' = <<>>
        /\ UNCHANGED <<model, config, compiledGraph, state, initialState,
                       history, breakpoints>> ]_vars

\* A session started at 4 ms is running at 8 ms after a setSpeed that came
\* between two steps.
C21_Witness ==
  /\ msg.type = "setSpeed"
  /\ state # Null
  /\ The(state).step >= 1
  /\ The(config).intervalMs = Some(4)
  /\ intervalMs = 8
  /\ timers # {}
  /\ \A t \in timers : t.ms = 8

\* C22: resume on a session, whatever state it is in, sets state.breached to
\* null and leaves step, values and the rest of the state as they were, posts
\* exactly one resumed result, leaves exactly one timer active, at the current
\* interval, and does not change the history.
C22_Resume ==
  [][ (state # Null /\ msg'.type = "resume") =>
        /\ state' = Some([The(state) EXCEPT !.breached = Null])
        /\ out' = << [type |-> "resumed"] >>
        /\ Cardinality(timers') = 1
        /\ \A t \in timers' : t.ms = intervalMs /\ loopId' = Some(t.id)
        /\ UNCHANGED <<model, config, compiledGraph, initialState, history,
                       intervalMs, breakpoints>> ]_vars

\* The chain model was resumed after the breach of step 3: the breach is
\* cleared, the three snapshots are in the history and a timer is active.
C22_Witness ==
  /\ msg.type = "resume"
  /\ model = Some(ChainModel)
  /\ The(state).step = 3
  /\ The(state).breached = Null
  /\ The(state).values["B"] = 2
  /\ Len(history) = 3
  /\ timers # {}

\* C23: stop, with or without a session and with or without a timer, leaves no
\* timer, posts exactly one done result carrying the history as it stands, and
\* changes neither the state (step, values) nor the history.
C23_Stop ==
  [][ msg'.type = "stop" =>
        /\ timers' = {} /\ loopId' = Null
        /\ out' = << [type |-> "done", history |-> history] >>
        /\ UNCHANGED <<model, config, compiledGraph, state, initialState, history,
                       intervalMs, breakpoints>> ]_vars

\* A session stopped two steps into a budget of three, nothing having halted
\* it: done carries the two snapshots.
C23_Witness ==
  /\ msg.type = "stop"
  /\ state # Null
  /\ The(state).step = 2
  /\ The(config).steps = 3
  /\ The(state).breached = Null
  /\ afterPause = "no" /\ afterHit = "no"
  /\ Len(history) = 2
  /\ out = << [type |-> "done", history |-> history] >>
  /\ timers = {}

\* C24: init, whatever the worker was doing, leaves no timer, a state at step
\* 0 with the model's node values and no breach, an empty history, the tick
\* interval of the config (16 when the config has none) and posts exactly one
\* ready result; a tick needs an active timer and, with no timer active, only
\* a run or resume message starts one, so only they or a step message bring
\* the next step.
C24_Init ==
  [][ /\ msg'.type = "init" =>
           /\ timers' = {} /\ loopId' = Null
           /\ state' # Null
           /\ The(state').step = 0
           /\ \A n \in Range(msg'.model.nodes) : The(state').values[n.id] = n.value
           /\ DOMAIN The(state').values = NodeIds(msg'.model.nodes)
           /\ The(state').breached = Null
           /\ history' = <<>>
           /\ intervalMs' = OrElse(msg'.config.intervalMs, 16)
           /\ out' = << [type |-> "ready"] >>
           /\ model' = Some(msg'.model) /\ config' = Some(msg'.config)
      /\ msg'.type = "tick" => timers # {}
      /\ (timers = {} /\ timers' # {}) => msg'.type \in {"run", "resume"} ]_vars

\* A session that had been run again after a pause and after a breakpoint hit
\* was replaced by init with a config that has no interval: no timer, step 0,
\* 16 ms.
C24_Witness ==
  /\ msg.type = "init"
  /\ afterPause = "rerun" /\ afterHit = "rerun"
  /\ msg.config.intervalMs = Null
  /\ intervalMs = 16
  /\ The(state).step = 0
  /\ history = <<>>
  /\ timers = {}

\* C25: the step counter is never negative; a tick or a step message on a
\* session adds exactly 1 to it, init and reset put it at 0, and every other
\* message leaves it as it was.
C25_StepCounter ==
  /\ [](state # Null => The(state).step >= 0)
  /\ [][ /\ msg'.type \in {"init", "reset"} =>
              (state' # Null => The(state').step = 0)
         /\ state # Null =>
              /\ state' # Null
              /\ msg'.type \in {"tick", "step"} => The(state').step = The(state).step + 1
              /\ msg'.type \notin {"tick", "step", "init", "reset"}
                   => The(state').step = The(state).step ]_vars

\* A run that followed two steps started the timer without rewinding the
\* counter.
C25_Witness ==
  /\ msg.type = "run"
  /\ state # Null
  /\ The(state).step = 2
  /\ history = <<>>
  /\ timers # {}

\* C26: once run has been processed on a session, with no message after it
\* and the timer firing as long as it is active, a tick eventually leaves
\* no timer and has posted paused, breakpointHit or done; it is done unless
\* the step breached or hit a breakpoint.
C26_RunStops ==
  (msg.type = "run" /\ state # Null) ~>
    ( /\ msg.type = "tick"
      /\ timers = {}
      /\ Types(out) \cap Halting # {}
      /\ ("done" \in Types(out) \/ The(state).breached # Null \/ PostedHit(out)) )

\* Two ticks after a run reached the budget of 3 from step 1: done was posted
\* with the two snapshots and no timer is left.
C26_Witness ==
  /\ msg.type = "tick"
  /\ The(config).steps = 3
  /\ The(state).step = 3
  /\ Len(history) = 2
  /\ out[Len(out)] = [type |-> "done", history |-> history]
  /\ timers = {}

\* The snapshots of a history are those of consecutive steps.
InStepOrder(h) == \A i \in 1 .. Len(h) - 1 : h[i + 1].step = h[i].step + 1

\* The number of state results among the results posted.
StatesPosted(results) ==
  Cardinality({i \in 1 .. Len(results) : results[i].type = "state"})

\* C27: run on a session empties the history and leaves exactly one timer,
\* set to the current interval; every tick on from there computes one step
\* (the counter goes up by one), posts exactly one state result, first, with
\* the snapshot of the state it produced, and appends that snapshot to the
\* history. The history is cut only by init, reset and run and grows only by
\* the snapshot of a tick or a step message, so it always holds the snapshots
\* of consecutive steps up to the current one.
C27_RunHistory ==
  /\ [](state # Null =>
          /\ InStepOrder(history)
          /\ history # <<>> => history[Len(history)] = Snapshot(The(state)))
  /\ [][ /\ (msg'.type = "run" /\ state # Null) =>
              /\ history' = <<>>
              /\ \E t \in timers' : timers' = {t} /\ t.ms = intervalMs /\ loopId' = Some(t.id)
              /\ state' = state
         /\ msg'.type = "tick" =>
              /\ timers # {}
              /\ The(state').step = The(state).step + 1
              /\ StatesPosted(out') = 1
              /\ out'[1] = [type |-> "state", snapshot |-> Snapshot(The(state'))]
              /\ history' = Append(history, Snapshot(The(state')))
         /\ history' # history =>
              \/ msg'.type \in {"init", "reset", "run"} /\ history' = <<>>
              \/ /\ msg'.type \in {"tick", "step"}
                 /\ history' = Append(history, Snapshot(The(state'))) ]_vars

\* A run that began at step 1 with one snapshot in the history was followed
\* by two ticks: the history holds the snapshots of steps 2 and 3 alone.
C27_Witness ==
  /\ msg.type = "tick"
  /\ The(state).step = 3
  /\ Len(history) = 2
  /\ history[1].step = 2
  /\ history[2] = Snapshot(The(state))
  /\ out[1] = [type |-> "state", snapshot |-> history[2]]

\* The sum of f over the finite set S.
RECURSIVE SumOver(_, _)
SumOver(S, f) ==
  IF S = {} THEN 0
  ELSE LET x == CHOOSE y \in S : TRUE
       IN  f[x] + SumOver(S \ {x}, f)

\* Node id of model m is an event node.
IsEvent(m, id) == \E n \in Range(m.nodes) : n.id = id /\ n.nodeType = "event"

\* The positions of m's edges that leave node a, and of those that go from a to b.
EdgesFrom(m, a) == {i \in 1 .. Len(m.edges) : m.edges[i].from = a}
EdgesBetween(m, a, b) == {i \in EdgesFrom(m, a) : m.edges[i].to = b}

\* What the events of fired deliver to regular node id in the step from st:
\* per event, its value in st once for each of its edges to id, or once when
\* the event has no edge at all.
PulseTo(m, st, fired, id) ==
  SumOver(fired,
    [e \in fired |->
       IF EdgesFrom(m, e) # {}
       THEN Cardinality(EdgesBetween(m, e, id)) * st.values[e]
       ELSE st.values[e]])

\* The signed, weighted sum over m's edges into id whose source is a regular node.
RegularInflow(m, st, id) ==
  LET into == {i \in 1 .. Len(m.edges) :
                 m.edges[i].to = id /\ ~IsEvent(m, m.edges[i].from)}
  IN  SumOver(into,
        [i \in into |->
           m.edges[i].weight * st.values[m.edges[i].from]
             * (IF m.edges[i].polarity = "+" THEN 1 ELSE -1)])

\* The value regular node n ends a step from st on when the events of fired
\* fire in it: its raw value, put within the bounds n declares.
ExpectedNext(m, n, st, dt, fired) ==
  CheckConstraints(n,
    st.values[n.id] + dt * RegularInflow(m, st, n.id) + PulseTo(m, st, fired, n.id),
    Null).value

\* C28: in a step in which events fire, each regular node receives, on top of
\* its own value and dt times its inflow from regular nodes, the plain value of
\* every fired event once per edge from that event to the node, or once when
\* the event has no outgoing edge; nothing is added to an event node.
C28_Pulse ==
  [][ (state # Null /\ msg'.type = "step" /\ The(state').triggeredEvents # <<>>) =>
        LET m     == The(model)
            fired == Range(The(state').triggeredEvents)
        IN  \A n \in Range(m.nodes) :
              The(state').values[n.id] =
                IF n.nodeType = "event" THEN The(state).values[n.id]
                ELSE ExpectedNext(m, n, The(state), The(config).dt, fired) ]_vars

\* Event E of value 1 fired in the first step with two edges to the unbounded
\* node Y, of weights 2 and 1 and opposite polarity, and dt = 0: Y went from 1
\* to 3, X kept its value.
C28_Witness ==
  /\ msg.type = "step"
  /\ state # Null
  /\ The(state).step = 1
  /\ The(state).triggeredEvents = <<"E">>
  /\ The(config).dt = 0
  /\ The(model).edges =
       << Edge("E", "Y", 2, "-"), Edge("E", "Y", 1, "+"), Edge("X", "Y", 1, "+") >>
  /\ The(model).nodes[2] = Regular("Y", 1, Null, Null)
  /\ The(initialState).values["E"] = 1
  /\ The(state).values["Y"] = 3
  /\ The(state).values["X"] = The(initialState).values["X"]

\* C29: in every state, each event node holds the value it had in the
\* initial state, with edges pointing to it or not, inside the bounds it
\* declares or not, fired or not.
C29_EventValueFixed ==
  state # Null =>
    \A n \in Range(The(model).nodes) :
      n.nodeType = "event" =>
        The(state).values[n.id] = The(initialState).values[n.id]

\* Event E of value 5, declaring bounds 0 and 2 and with an edge from itself,
\* fired in the third step and still holds 5.
C29_Witness ==
  /\ state # Null
  /\ The(state).step = 3
  /\ The(state).triggeredEvents = <<"E">>
  /\ The(model).nodes[3] = FixedEvent("E", 5, Some(0), Some(2), Some(3))
  /\ \E i \in 1 .. Len(The(model).edges) :
       The(model).edges[i].from = "E" /\ The(model).edges[i].to = "E"
  /\ The(state).values["E"] = 5

\* The events among the sources of m's edges into node id.
EventSources(m, id) ==
  {m.edges[i].from : i \in {j \in 1 .. Len(m.edges) :
                              m.edges[j].to = id /\ IsEvent(m, m.edges[j].from)}}

\* C30: a regular node with an edge from an event node ends every step on
\* its own value plus dt times the inflow of its edges from regular nodes
\* alone, plus the pulses of the events that fired in the step, within its
\* bounds: the edge from the event adds no weighted term, whether the event
\* fired or not.
C30_EventEdgesSkipped ==
  [][ (state # Null /\ msg'.type = "step") =>
        LET m   == The(model)
            st  == The(state)
            dt  == The(config).dt
            own(n) == st.values[n.id] + dt * RegularInflow(m, st, n.id)
        IN  \A n \in Range(m.nodes) :
              (n.nodeType # "event" /\ EventSources(m, n.id) # {}) =>
                LET fired == Range(The(state').triggeredEvents)
                IN  The(state').values[n.id] =
                      IF fired \cap EventSources(m, n.id) = {}
                      THEN CheckConstraints(n, own(n), Null).value
                      ELSE CheckConstraints(n, own(n) + PulseTo(m, st, fired, n.id),
                                            Null).value ]_vars

\* With dt = 1, an edge of weight 3 from event E of value 5 to the unbounded
\* node Y and Y's own negative loop: Y went from 1 to 0 in the first step, stayed
\* at 0 in the second, and took 5, once, in the third, in which E fired.
C30_Witness ==
  /\ msg.type = "step"
  /\ state # Null
  /\ The(state).step = 3
  /\ The(state).triggeredEvents = <<"E">>
  /\ The(config).dt = 1
  /\ The(model).edges =
       << Edge("E", "Y", 3, "+"), Edge("E", "E", 1, "+"), Edge("Y", "Y", 1, "-") >>
  /\ The(model).nodes[2] = Regular("Y", 1, Null, Null)
  /\ The(initialState).values["E"] = 5
  /\ Len(history) = 3
  /\ history[1].values["Y"] = 0
  /\ history[2].values["Y"] = 0
  /\ The(state).values["Y"] = 5

\* The orders in which the n nodes of a model can be listed.
Orders(n) == {p \in [1 .. n -> 1 .. n] : \A i, j \in 1 .. n : p[i] = p[j] => i = j}

\* Model m with its nodes listed in order p.
Reordered(m, p) == [m EXCEPT !.nodes = [i \in 1 .. Len(m.nodes) |-> m.nodes[p[i]]]]

\* C31: every regular node ends a step on the value computed from the values
\* the step started from (its own, its regular inflow and the pulses of the
\* events fired, within its bounds), and the values of the step are those
\* computeStep returns for the same model with its nodes listed in any other
\* order, cycles and self-loops included.
C31_Simultaneous ==
  [][ (state # Null /\ msg'.type = "step") =>
        LET m     == The(model)
            st    == [The(state) EXCEPT !.breached = Null]
            dt    == The(config).dt
            fired == Range(The(state').triggeredEvents)
            none  == [id \in NodeIds(SelectNodes(m.nodes, TRUE)) |-> 0]
        IN  /\ \A n \in Range(m.nodes) :
                 n.nodeType # "event" =>
                   The(state').values[n.id] = ExpectedNext(m, n, st, dt, fired)
            /\ \A p \in Orders(Len(m.nodes)) :
                 computeStep(st, compileGraph(Reordered(m, p)), dt, none).values
                   = The(state').values ]_vars

\* With dt = 1 and the cycle X -2-> Y, Y +1-> X between unbounded nodes that
\* both start at 1, the first step left X at 2 and Y at -1: Y was computed
\* from the X the step started from.
C31_Witness ==
  /\ msg.type = "step"
  /\ state # Null
  /\ The(state).step = 1
  /\ The(config).dt = 1
  /\ The(model).edges = << Edge("X", "Y", 2, "-"), Edge("Y", "X", 1, "+") >>
  /\ The(model).nodes[1] = Regular("X", 1, Null, Null)
  /\ The(model).nodes[2] = Regular("Y", 1, Null, Null)
  /\ The(state).values["X"] = 2
  /\ The(state).values["Y"] = -1

\* The value regular node n of model m would take in the step from st in which
\* the events of fired fire, before any bound is applied.
RawValue(m, n, st, dt, fired) ==
  st.values[n.id] + dt * RegularInflow(m, st, n.id) + PulseTo(m, st, fired, n.id)

\* C32: a regular node whose raw next value is above its max ends the step on
\* max, one whose raw next value is below its min ends it on min, and when no
\* node earlier in the model breaches, the breach of the step names that
\* node, the bound it violated, the raw value and the limit; whichever node
\* the breach names, the value it records is that node's raw value, outside
\* the node's bounds.
C32_ClampAndRecord ==
  [][ (state # Null /\ msg'.type = "step") =>
        LET m      == The(model)
            st     == The(state)
            fired  == Range(The(state').triggeredEvents)
            raw(n) == RawValue(m, n, st, The(config).dt, fired)
            over(n)  == n.nodeType # "event" /\ n.max # Null /\ raw(n) > The(n.max)
            under(n) == n.nodeType # "event" /\ n.min # Null /\ raw(n) < The(n.min)
            first(i) == \A j \in 1 .. i - 1 : ~over(m.nodes[j]) /\ ~under(m.nodes[j])
        IN  /\ \A i \in 1 .. Len(m.nodes) :
                 LET n == m.nodes[i]
                 IN  /\ over(n) =>
                          /\ The(state').values[n.id] = The(n.max)
                          /\ first(i) =>
                               The(state').breached =
                                 Some([nodeId |-> n.id, constraint |-> "max",
                                       value |-> raw(n), limit |-> The(n.max)])
                     /\ under(n) =>
                          /\ The(state').values[n.id] = The(n.min)
                          /\ first(i) =>
                               The(state').breached =
                                 Some([nodeId |-> n.id, constraint |-> "min",
                                       value |-> raw(n), limit |-> The(n.min)])
            /\ The(state').breached # Null =>
                 LET b == The(The(state').breached)
                 IN  \E n \in Range(m.nodes) :
                       /\ n.id = b.nodeId
                       /\ b.value = raw(n)
                       /\ b.value # The(state').values[n.id]
                       /\ over(n) \/ under(n) ]_vars

\* With dt = 1 and the edge X -2-> Y from X = 3, the first step took Y, which
\* starts at 1 with bounds 0 and 2, to the raw value -5: Y sits on 0 and the
\* breach records min, -5 and the limit 0.
C32_Witness ==
  /\ msg.type = "step"
  /\ state # Null
  /\ The(state).step = 1
  /\ The(config).dt = 1
  /\ The(model).edges = << Edge("X", "Y", 2, "-"), Edge("Y", "X", 1, "+") >>
  /\ The(model).nodes[1] = Regular("X", 3, Null, Null)
  /\ The(model).nodes[2] = Regular("Y", 1, Some(0), Some(2))
  /\ The(state).values["Y"] = 0
  /\ The(state).breached =
       Some([nodeId |-> "Y", constraint |-> "min", value |-> -5, limit |-> 0])

Meets(c, a, b) ==
  \/ c = "eq"  /\ a = b
  \/ c = "gt"  /\ a > b
  \/ c = "lt"  /\ a < b
  \/ c = "gte" /\ (a > b \/ a = b)
  \/ c = "lte" /\ (a < b \/ a = b)

\* The positions of the breakpoints of bps whose node has a value in values
\* that meets their condition.
Matching(bps, values) ==
  { i \in 1 .. Len(bps) :
      /\ bps[i].nodeId \in DOMAIN values
      /\ Meets(bps[i].condition, values[bps[i].nodeId], bps[i].value) }

\* C34: checkBreakpoints returns null when no breakpoint of the list has its
\* node in the value map with a value meeting its condition, and otherwise
\* one hit: the first such breakpoint in list order with that node's value;
\* breakpoints on absent nodes are passed over.
C34_FirstMatch ==
  LET M == Matching(check.breakpoints, check.values)
  IN  /\ Cardinality(check.hit) <= 1
      /\ M = {} => check.hit = Null
      /\ M # {} =>
           LET bp == check.breakpoints[CHOOSE i \in M : \A j \in M : i <= j]
           IN  check.hit = Some([breakpoint |-> bp, actualValue |-> check.values[bp.nodeId]])

\* Called with A = 1 and a list of a breakpoint on the absent node Z, then
\* A >= 1, then A <= 1, checkBreakpoints returned the second with the value 1.
C34_Witness ==
  /\ check.values = [id \in {"A"} |-> 1]
  /\ check.breakpoints =
       << [nodeId |-> "Z", condition |-> "lte", value |-> 1],
          [nodeId |-> "A", condition |-> "gte", value |-> 1],
          [nodeId |-> "A", condition |-> "lte", value |-> 1] >>
  /\ check.hit = Some([breakpoint |-> [nodeId |-> "A", condition |-> "gte", value |-> 1],
                       actualValue |-> 1])

\* The incoming record of edge e.
RecordOf(e) ==
  [sourceId |-> e.from, weight |-> e.weight, polarity |-> IF e.polarity = "+" THEN 1 ELSE -1]

\* Both adjacency maps have exactly the node ids as keys, and the regular and
\* the event nodes are disjoint and together all the nodes.
KeyedAndPartitioned(m, g) ==
  /\ DOMAIN g.incomingEdges = NodeIds(m.nodes)
  /\ DOMAIN g.outgoingEdges = NodeIds(m.nodes)
  /\ NodeIds(g.regularNodes) \cap NodeIds(g.eventNodes) = {}
  /\ Range(g.regularNodes) \cup Range(g.eventNodes) = Range(m.nodes)
  /\ \A n \in Range(g.eventNodes) : n.nodeType = "event"
  /\ \A n \in Range(g.regularNodes) : n.nodeType # "event"

\* C35: every node has a key in both adjacency maps, the nodes are partitioned
\* into regular and event nodes, and every edge of the model has its incoming
\* record in the list of its target and its entry in the outgoing list of its
\* source, each list holding as many items as the model has edges into, or out
\* of, that node.
C35_EveryEdgeCompiled ==
  compiledGraph # Null =>
    LET m == The(model)
        g == The(compiledGraph)
    IN  /\ KeyedAndPartitioned(m, g)
        /\ \A i \in 1 .. Len(m.edges) :
             LET e == m.edges[i]
             IN  /\ e.to \in DOMAIN g.incomingEdges
                 /\ e.from \in DOMAIN g.outgoingEdges
                 /\ \E j \in 1 .. Len(g.incomingEdges[e.to]) :
                      g.incomingEdges[e.to][j] = RecordOf(e)
                 /\ \E j \in 1 .. Len(g.outgoingEdges[e.from]) :
                      g.outgoingEdges[e.from][j] = e.to
                 /\ Len(g.incomingEdges[e.to]) =
                      Cardinality({k \in 1 .. Len(m.edges) : m.edges[k].to = e.to})
                 /\ Len(g.outgoingEdges[e.from]) =
                      Cardinality({k \in 1 .. Len(m.edges) : m.edges[k].from = e.from})

\* C36: at every moment at most one timer is active, and it is the one
\* loopId names (none when loopId is null); a timer started by run, resume or
\* setSpeed is the only one left, set to the current interval, and init,
\* pause, reset and stop leave none.
C36_OneTimer ==
  /\ [](/\ Cardinality(timers) <= 1
        /\ loopId = {t.id : t \in timers})
  /\ [][ /\ msg'.type \in {"init", "pause", "reset", "stop"} => timers' = {}
         /\ (msg'.type \in {"run", "resume", "setSpeed"} /\ timers' # {}) =>
              \E t \in timers' : timers' = {t} /\ t.ms = intervalMs' ]_vars

\* setSpeed to 4 ms reached a session that was running at the default
\* interval: the timer it set is the only one.
C36_Witness ==
  /\ msg.type = "setSpeed"
  /\ msg.intervalMs = 4
  /\ config # Null
  /\ The(config).intervalMs = Null
  /\ Cardinality(timers) = 1
  /\ \E t \in timers : t.ms = 4 /\ loopId = Some(t.id)

\* C37: a tick or a step message on a session posts, before anything else, one
\* state result with the step number one above the session's and the values
\* the step produced, and after it nothing but paused, breakpointHit, done or
\* stepped; every message other than init and reset that computes no step
\* posts no state result and leaves the step number as it was, so the state
\* results of successive steps carry consecutive numbers.
C37_StateFirstInSequence ==
  [][ state # Null =>
        /\ msg'.type \in {"tick", "step"} =>
             /\ out' # <<>>
             /\ out'[1] = [type |-> "state",
                           snapshot |-> [step   |-> The(state).step + 1,
                                         values |-> The(state').values]]
             /\ The(state').step = The(state).step + 1
             /\ \A i \in 2 .. Len(out') :
                  out'[i].type \in {"paused", "breakpointHit", "done", "stepped"}
        /\ msg'.type \notin {"tick", "step", "init", "reset"} =>
             /\ StatesPosted(out') = 0
             /\ The(state').step = The(state).step ]_vars

\* A step message took the session from step 2 to step 3 and breached: the
\* state result numbered 3 came first, paused second, and the snapshot before
\* it in the history is numbered 2.
C37_Witness ==
  /\ msg.type = "step"
  /\ state # Null
  /\ Len(out) = 2
  /\ out[1].type = "state"
  /\ out[1].snapshot.step = 3
  /\ out[2].type = "paused"
  /\ Len(history) >= 2
  /\ history[Len(history) - 1].step = 2

\* C38: a step message on a session whose step left no breach and hit no
\* breakpoint posts stepped, wherever the step counter stands against the
\* configured budget.
C38_CleanStepPostsStepped ==
  (msg.type = "step" /\ state # Null /\ The(state).breached = Null /\ ~PostedHit(out))
    => "stepped" \in Types(out)

\* The breach records and the lists of fired events a state is given in place
\* of its own.
OtherBreaches ==
  {Null, Some([nodeId |-> "X", constraint |-> "max", value |-> 9, limit |-> 2])}
OtherFired == {<<>>, <<"E">>}

\* Model m has no random event.
OnlyFixedEvents(m) ==
  \A n \in Range(m.nodes) : n.nodeType = "event" => n.eventType = "fixed"

\* C40: for a model whose events are all fixed, what computeStep returns from
\* a state (step, values, breach, schedule and fired events) is what it
\* returns from any state with the same step, values and schedule, whatever
\* breach and whatever fired events that state carries.
C40_IgnoresBreachAndFired ==
  (state # Null /\ OnlyFixedEvents(The(model))) =>
    LET st   == The(state)
        g    == The(compiledGraph)
        dt   == The(config).dt
        none == [id \in NodeIds(g.eventNodes) |-> 0]
    IN  \A b \in OtherBreaches, f \in OtherFired :
          computeStep([st EXCEPT !.breached = b, !.triggeredEvents = f], g, dt, none)
            = computeStep(st, g, dt, none)

\* A state with a latched breach in which the fixed event E has just fired,
\* from which the next step records a breach again: computeStep returns the
\* same from it with the breach and the fired events removed.
C40_Witness ==
  /\ state # Null
  /\ OnlyFixedEvents(The(model))
  /\ The(state).breached # Null
  /\ The(state).triggeredEvents = <<"E">>
  /\ LET next == computeStep(The(state), The(compiledGraph), The(config).dt,
                             [id \in {"E"} |-> 0])
     IN  /\ next.breached # Null
         /\ next.breached # The(state).breached
         /\ next = computeStep([The(state) EXCEPT !.breached = Null,
                                                  !.triggeredEvents = <<>>],
                               The(compiledGraph), The(config).dt, [id \in {"E"} |-> 0])

\* Nothing is on its way between controller and worker and no timeout of
\* start() is pending.
Quiet == ctl.sent = <<>> /\ ctl.received = <<>> /\ ctl.timeouts = <<>>

\* C39: whenever nothing is in flight either way and no timeout of start() is
\* pending, a controller whose status is running has a worker whose timer is
\* active.
C39_RunningMeansTimer ==
  (Quiet /\ ctl.status = "running") => timers # {}

====
